---- MODULE Spec2Model ----
(***************************************************************************)
(* A model of cosmic-applet-ollama: the streaming chat client              *)
(* (src/src/ollama.rs, Client::chat_stream), the bounded channel between   *)
(* its background task and the consumer that polls it (src/src/app.rs,     *)
(* AppModel::poll_stream), the chat history, its conversions, its trimming *)
(* and its file (src/src/history.rs), and the context gathered for the     *)
(* system prompt (src/src/context.rs, src/src/web.rs).                     *)
(*                                                                         *)
(* Bytes and characters are strings; a text is a sequence of them.  The    *)
(* wire format keeps the shape of the NDJSON objects the code parses,      *)
(* one symbol per token:                                                   *)
(*    "{"  "}"   the braces of the stream object                           *)
(*    "m"        the message field: "message":{"content":" ... "}          *)
(*    "d" "D"    the done field: "done":false and "done":true              *)
(*    "a"        a one-byte character of a content string                  *)
(*    "C3" "BC"  the two bytes of one two-byte UTF-8 character ("uuml")    *)
(*    "x"        a byte that is no JSON                                    *)
(*    "LF"       the newline byte                                          *)
(***************************************************************************)
EXTENDS Integers, Sequences, FiniteSets, TLC

VARIABLES
    body,       \* the bytes of the HTTP response body the server sends
    pc,         \* where the background task is: idle, connect, next, lines, send, returned
    pos,        \* how many bytes of body bytes_stream() has yielded
    curRead,    \* `bytes`: the raw read being processed
    lines,      \* the lines of `text.lines()` the for loop has not reached yet
    sendEv,     \* the event of the tx.send(..).await in progress
    chan,       \* the events buffered in the mpsc channel
    rx,         \* the consumer's end of the channel: none, held, dropped
    received,   \* the events try_recv has returned to the consumer, in order
    parsed,     \* history: every line handed to serde_json::from_str, in order
    attempted,  \* history: every event handed to tx.send, in order
    sent,       \* history: every event tx.send has put into the channel, in order
    exit,       \* history: the return statement the task has chosen
    failed,     \* history: how many tx.send calls have returned Err
    closedSeen, \* history: try_recv has reported Disconnected
    messages,   \* the (role, content) pairs of a conversation
    history,    \* a ChatHistory value
    restored,   \* the result of ChatHistory::to_messages
    stage,      \* which history conversion has run last
    dir,        \* the data directory of the applet exists
    file,       \* the content of history.json, or NoFile when there is none
    call,       \* the last history call and what it returned to its caller
    fault,      \* history: the file-system failure met by the last history call
    lastWrite,  \* history: the last save_history or clear_history and its result
    outputs,    \* what each external utility of Context::gather does when run
    context,    \* the Context gather has built, Context::default() before
    search,     \* the web search section gathered with the context, None if none
    basePrompt, \* the base prompt Context::format is called with
    prompt,     \* the system prompt Context::format has built, empty before
    input,      \* the arguments of a call of format_size, chat or search
    requests,   \* history: the HTTP requests the call has issued, in order
    output,     \* what the call has returned, NoOutput before it returns
    input_text, \* AppModel::input_text
    waiting,    \* AppModel::waiting
    stream_rx,  \* AppModel::stream_rx is Some(receiver)
    pending,    \* the application messages the runtime has still to deliver
    target,     \* history: the place of the message StreamReady has pushed, 0 if none
    submits,    \* history: how many Submit messages have been accepted
    submitted,  \* history: the text of the last Submit accepted
    lastMsg     \* history: the message the last call of update has handled

streamVars == <<body, pc, pos, curRead, lines, sendEv, chan, rx, received,
                parsed, attempted, sent, exit, failed, closedSeen>>
histVars == <<messages, history, restored, stage>>
storeVars == <<dir, file, call, fault, lastWrite>>
ctxVars == <<outputs, context, search, basePrompt, prompt>>
callVars == <<input, requests, output>>
appVars == <<input_text, waiting, stream_rx, pending, target, submits, submitted, lastMsg>>
vars == <<body, pc, pos, curRead, lines, sendEv, chan, rx, received,
          parsed, attempted, sent, exit, failed, closedSeen,
          messages, history, restored, stage,
          dir, file, call, fault, lastWrite,
          outputs, context, search, basePrompt, prompt,
          input, requests, output,
          input_text, waiting, stream_rx, pending, target, submits, submitted, lastMsg>>

(***************************************************************************)
(* Bounds of the model.                                                    *)
(***************************************************************************)
MaxLines == 3
MaxRead == 18
MaxExtra == 1
MaxPairs == 2
MaxOver == 2
MaxPartial == 1
MaxGiB == 3
MaxTopics == 6
MaxSubmits == 2
MaxAppLines == 1
Near == 1

(***************************************************************************)
(* Program constants.                                                      *)
(***************************************************************************)
Capacity == 32
CURRENT_VERSION == 1
MAX_HISTORY_SIZE == 100
MAX_CONTENT_SIZE == 2000
MAX_ERROR_SIZE == 1500

(***************************************************************************)
(* StreamEvent (src/src/ollama.rs:99).                                     *)
(***************************************************************************)
Chunk(text) == <<"Chunk", text>>
Done == <<"Done", <<>>>>
Error(msg) == <<"Error", <<msg>>>>
NoEv == <<"none", <<>>>>

LF == "LF"

(***************************************************************************)
(* String::from_utf8_lossy: a well-formed two-byte sequence is one         *)
(* character, a lead byte without its continuation byte and a              *)
(* continuation byte on its own each become U+FFFD, every other byte is    *)
(* the character it encodes.                                               *)
(***************************************************************************)
RECURSIVE FromUtf8Lossy(_)
FromUtf8Lossy(bytes) ==
    IF bytes = <<>> THEN <<>>
    ELSE IF bytes[1] = "C3"
         THEN IF Len(bytes) >= 2 /\ bytes[2] = "BC"
              THEN <<"uuml">> \o FromUtf8Lossy(SubSeq(bytes, 3, Len(bytes)))
              ELSE <<"FFFD">> \o FromUtf8Lossy(Tail(bytes))
    ELSE IF bytes[1] = "BC"
         THEN <<"FFFD">> \o FromUtf8Lossy(Tail(bytes))
    ELSE <<bytes[1]>> \o FromUtf8Lossy(Tail(bytes))

(***************************************************************************)
(* str::lines: the text split at every newline; the newline is not part    *)
(* of a line, and a text that ends with a newline has no empty last line.  *)
(***************************************************************************)
FirstLF(text) ==
    IF \E i \in 1..Len(text) : text[i] = LF
    THEN CHOOSE i \in 1..Len(text) :
            text[i] = LF /\ \A j \in 1..(i - 1) : text[j] # LF
    ELSE 0

RECURSIVE Lines(_)
Lines(text) ==
    IF text = <<>> THEN <<>>
    ELSE LET i == FirstLF(text) IN
         IF i = 0 THEN <<text>>
         ELSE <<SubSeq(text, 1, i - 1)>> \o Lines(SubSeq(text, i + 1, Len(text)))

(***************************************************************************)
(* serde_json::from_str::<StreamChunk>: `done` is a required bool,         *)
(* `message` an optional object with a `content` string.  A text parses    *)
(* only when it is one whole object: a text that stops before the closing  *)
(* brace, starts after the opening one, lacks `done`, or has characters    *)
(* after the object is an error.                                           *)
(***************************************************************************)
ContentChar == {"a", "uuml", "FFFD"}

ParseErr == [ok |-> FALSE, hasMsg |-> FALSE, content |-> <<>>, done |-> FALSE]

FromStr(line) ==
    IF /\ Len(line) >= 3
       /\ line[1] = "{"
       /\ line[Len(line)] = "}"
       /\ line[Len(line) - 1] \in {"d", "D"}
    THEN LET inner == SubSeq(line, 2, Len(line) - 2)
             isDone == line[Len(line) - 1] = "D"
         IN  IF inner = <<>>
             THEN [ok |-> TRUE, hasMsg |-> FALSE, content |-> <<>>, done |-> isDone]
             ELSE IF /\ inner[1] = "m"
                     /\ \A i \in 2..Len(inner) : inner[i] \in ContentChar
                  THEN [ok |-> TRUE, hasMsg |-> TRUE, content |-> Tail(inner),
                        done |-> isDone]
                  ELSE ParseErr
    ELSE ParseErr

(***************************************************************************)
(* The response bodies the server may send: up to MaxLines lines, each     *)
(* one of the line kinds below and ended by a newline, or a burst of more  *)
(* content lines than the channel holds.                                   *)
(***************************************************************************)
ContentA == <<"{", "m", "a", "d", "}">>
ContentU == <<"{", "m", "C3", "BC", "d", "}">>
EmptyContent == <<"{", "m", "d", "}">>
NoMessage == <<"{", "d", "}">>
DoneLine == <<"{", "D", "}">>
DoneWithContent == <<"{", "m", "a", "D", "}">>
Malformed == <<"{", "d", "}", "x">>
Blank == <<>>

LineKinds == {ContentA, ContentU, EmptyContent, NoMessage, DoneLine,
              DoneWithContent, Malformed, Blank}

RECURSIVE Encode(_)
Encode(script) ==
    IF script = <<>> THEN <<>>
    ELSE Head(script) \o <<LF>> \o Encode(Tail(script))

Scripts == UNION {[1..n -> LineKinds] : n \in 0..MaxLines}

BurstTails == UNION {[1..n -> {ContentA, NoMessage}] : n \in 1..MaxExtra}

Bursts == {[i \in 1..Capacity |-> ContentA] \o t : t \in BurstTails}

(***************************************************************************)
(* Client::chat_stream, src/src/ollama.rs:228-319.                         *)
(***************************************************************************)
Min(a, b) == IF a < b THEN a ELSE b

\* The place in the body of the last newline before byte p (0 when there is none).
LineStart(p) ==
    IF \E i \in 1..(p - 1) : body[i] = LF
    THEN CHOOSE i \in 1..(p - 1) : body[i] = LF /\ \A j \in (i + 1)..(p - 1) : body[j] # LF
    ELSE 0

\* Where the for loop over text.lines() goes on: the next line of this raw
\* read, or stream.next() when the read has no line left.
Resume(ls) == IF ls = <<>> THEN "next" ELSE "lines"

\* let text = String::from_utf8_lossy(&bytes); text.lines()
ReadLines(bytes) == Lines(FromUtf8Lossy(bytes))

\* LineStep with a parser that skips a line it cannot parse.
LineStepSkipsBad(line) ==
    IF line = <<>> THEN [ev |-> NoEv, exit |-> "none"]
    ELSE LET chunk == FromStr(line) IN
         IF ~chunk.ok THEN [ev |-> NoEv, exit |-> "none"]
         ELSE IF chunk.done THEN [ev |-> Done, exit |-> "done"]
         ELSE IF chunk.hasMsg /\ chunk.content # <<>>
              THEN [ev |-> Chunk(chunk.content), exit |-> "none"]
         ELSE [ev |-> NoEv, exit |-> "none"]

\* LineStep without the `!msg.content.is_empty()` test.
LineStepSendsEmpty(line) ==
    IF line = <<>> THEN [ev |-> NoEv, exit |-> "none"]
    ELSE LET chunk == FromStr(line) IN
         IF ~chunk.ok THEN [ev |-> Error("Parse error"), exit |-> "parse"]
         ELSE IF chunk.done THEN [ev |-> Done, exit |-> "done"]
         ELSE IF chunk.hasMsg
              THEN [ev |-> Chunk(chunk.content), exit |-> "none"]
         ELSE [ev |-> NoEv, exit |-> "none"]

\* The body of the for loop for one line: the event it hands to tx.send
\* (NoEv when it sends nothing) and the return statement it is heading for.
LineStep(line) ==
    IF line = <<>> THEN [ev |-> NoEv, exit |-> "none"]
    ELSE LET chunk == FromStr(line) IN
         IF ~chunk.ok THEN [ev |-> Error("Parse error"), exit |-> "parse"]
         ELSE IF chunk.done THEN [ev |-> Done, exit |-> "done"]
         ELSE IF chunk.hasMsg /\ chunk.content # <<>>
              THEN [ev |-> Chunk(chunk.content), exit |-> "none"]
         ELSE [ev |-> NoEv, exit |-> "none"]

\* AfterSendOk without the return that follows the send of Done and Error.
AfterSendOkKeepsReading(ev, ls) == Resume(ls)

\* What the task does when tx.send(ev).await returns Ok: after a Chunk the
\* for loop goes on, after Done or Error the task returns.
AfterSendOk(ev, ls) == IF ev[1] = "Chunk" THEN Resume(ls) ELSE "returned"

\* AfterSendErr without `return; // Receiver dropped`.
AfterSendErrContinues(ev, ls) == IF ev[1] = "Chunk" THEN Resume(ls) ELSE "returned"

\* What the task does when tx.send(ev).await returns Err (receiver dropped):
\* it returns, on `return; // Receiver dropped` for a Chunk and on the
\* return that follows `let _ = tx.send(..)` for Done and Error.
AfterSendErr(ev, ls) == "returned"

\* SendReady for a channel without a capacity.
SendReadyUnbounded == rx = "held"

\* tx.send(ev).await completes with Ok when the receiver is alive and the
\* channel has room.
SendReady == rx = "held" /\ Len(chan) < Capacity

\* TryRecvIndex for a receiver that takes the newest event.
TryRecvNewest(buf) == Len(buf)

\* mpsc::Receiver::try_recv on a non-empty channel: the oldest event.
TryRecvIndex(buf) == 1

RemoveAt(buf, i) == SubSeq(buf, 1, i - 1) \o SubSeq(buf, i + 1, Len(buf))

StartSend(ev, path) ==
    /\ pc' = "send"
    /\ sendEv' = ev
    /\ attempted' = Append(attempted, ev)
    /\ exit' = path

\* pub async fn chat_stream: the channel is created, the task is spawned and
\* rx is returned to the caller.
ChatStream ==
    /\ pc = "idle"
    /\ stage = "idle"
    /\ pc' = "connect"
    /\ rx' = "held"
    /\ chan' = <<>>
    /\ UNCHANGED <<body, pos, curRead, lines, sendEv, received, parsed, attempted,
                   sent, exit, failed, closedSeen>>
    /\ UNCHANGED <<histVars, storeVars, ctxVars, callVars, appVars>>

\* http.post(..).send().await returns Err.
ConnectErr ==
    /\ pc = "connect"
    /\ StartSend(Error("Connection error"), "connect")
    /\ UNCHANGED <<body, pos, curRead, lines, chan, rx, received, parsed, sent,
                   failed, closedSeen>>
    /\ UNCHANGED <<histVars, storeVars, ctxVars, callVars, appVars>>

\* The response arrives with a status that is not 2xx.
StatusErr ==
    /\ pc = "connect"
    /\ StartSend(Error("Ollama error"), "status")
    /\ UNCHANGED <<body, pos, curRead, lines, chan, rx, received, parsed, sent,
                   failed, closedSeen>>
    /\ UNCHANGED <<histVars, storeVars, ctxVars, callVars, appVars>>

\* The response arrives with a 2xx status: response.bytes_stream().
ConnectOk ==
    /\ pc = "connect"
    /\ pc' = "next"
    /\ UNCHANGED <<body, pos, curRead, lines, sendEv, chan, rx, received, parsed,
                   attempted, sent, exit, failed, closedSeen>>
    /\ UNCHANGED <<histVars, storeVars, ctxVars, callVars, appVars>>

\* NextChunk with a buffer kept between reads: the unfinished last line of
\* the reads before is put in front of the bytes of this read.
NextChunkBuffered ==
    /\ pc = "next"
    /\ pos < Len(body)
    /\ \E n \in 1..Min(MaxRead, Len(body) - pos) :
        /\ curRead' = SubSeq(body, pos + 1, pos + n)
        /\ pos' = pos + n
        /\ lines' = ReadLines(SubSeq(body, LineStart(pos + 1) + 1, pos + n))
        /\ pc' = Resume(ReadLines(SubSeq(body, LineStart(pos + 1) + 1, pos + n)))
    /\ UNCHANGED <<body, sendEv, chan, rx, received, parsed, attempted, sent, exit,
                   failed, closedSeen>>
    /\ UNCHANGED <<histVars, storeVars, ctxVars, callVars, appVars>>

\* stream.next().await yields Some(Ok(bytes)): the next n bytes of the body.
NextChunk ==
    /\ pc = "next"
    /\ pos < Len(body)
    /\ \E n \in 1..Min(MaxRead, Len(body) - pos) :
        /\ curRead' = SubSeq(body, pos + 1, pos + n)
        /\ pos' = pos + n
        /\ lines' = ReadLines(SubSeq(body, pos + 1, pos + n))
        /\ pc' = Resume(ReadLines(SubSeq(body, pos + 1, pos + n)))
    /\ UNCHANGED <<body, sendEv, chan, rx, received, parsed, attempted, sent, exit,
                   failed, closedSeen>>
    /\ UNCHANGED <<histVars, storeVars, ctxVars, callVars, appVars>>

\* stream.next().await yields Some(Err(e)): the transport fails in mid-body.
NextErr ==
    /\ pc = "next"
    /\ StartSend(Error("Stream error"), "transport")
    /\ UNCHANGED <<body, pos, curRead, lines, chan, rx, received, parsed, sent,
                   failed, closedSeen>>
    /\ UNCHANGED <<histVars, storeVars, ctxVars, callVars, appVars>>

\* NextEnd with the end of a body that had no done line taken for a failure.
NextEndAsError ==
    /\ pc = "next"
    /\ pos = Len(body)
    /\ StartSend(Error("Stream error"), "eof")
    /\ UNCHANGED <<body, pos, curRead, lines, chan, rx, received, parsed, sent,
                   failed, closedSeen>>
    /\ UNCHANGED <<histVars, storeVars, ctxVars, callVars, appVars>>

\* stream.next().await yields None: the body has ended without a done line.
NextEnd ==
    /\ pc = "next"
    /\ pos = Len(body)
    /\ StartSend(Done, "eof")
    /\ UNCHANGED <<body, pos, curRead, lines, chan, rx, received, parsed, sent,
                   failed, closedSeen>>
    /\ UNCHANGED <<histVars, storeVars, ctxVars, callVars, appVars>>

\* One iteration of `for line in text.lines()`, up to its tx.send.
ForLine ==
    /\ pc = "lines"
    /\ lines # <<>>
    /\ LET line == Head(lines)
           step == LineStep(line)
       IN  /\ parsed' = IF line = <<>> THEN parsed ELSE Append(parsed, line)
           /\ lines' = Tail(lines)
           /\ IF step.ev = NoEv
              THEN /\ pc' = Resume(Tail(lines))
                   /\ UNCHANGED <<sendEv, attempted, exit>>
              ELSE StartSend(step.ev, step.exit)
    /\ UNCHANGED <<body, pos, curRead, chan, rx, received, sent, failed, closedSeen>>
    /\ UNCHANGED <<histVars, storeVars, ctxVars, callVars, appVars>>

\* tx.send(ev).await returns Ok(()).
SendOk ==
    /\ pc = "send"
    /\ SendReady
    /\ chan' = Append(chan, sendEv)
    /\ sent' = Append(sent, sendEv)
    /\ pc' = AfterSendOk(sendEv, lines)
    /\ sendEv' = NoEv
    /\ UNCHANGED <<body, pos, curRead, lines, rx, received, parsed, attempted, exit,
                   failed, closedSeen>>
    /\ UNCHANGED <<histVars, storeVars, ctxVars, callVars, appVars>>

\* tx.send(ev).await returns Err: the receiver has been dropped.
SendErr ==
    /\ pc = "send"
    /\ rx = "dropped"
    /\ pc' = AfterSendErr(sendEv, lines)
    /\ failed' = failed + 1
    /\ exit' = IF sendEv[1] = "Chunk" THEN "cancel" ELSE exit
    /\ sendEv' = NoEv
    /\ UNCHANGED <<body, pos, curRead, lines, chan, rx, received, parsed, attempted,
                   sent, closedSeen>>
    /\ UNCHANGED <<histVars, storeVars, ctxVars, callVars, appVars>>

\* AppModel::poll_stream, rx.try_recv() returns Ok(event).
PollEvent ==
    /\ rx = "held"
    /\ chan # <<>>
    /\ received' = Append(received, chan[TryRecvIndex(chan)])
    /\ chan' = RemoveAt(chan, TryRecvIndex(chan))
    /\ UNCHANGED <<body, pc, pos, curRead, lines, sendEv, rx, parsed, attempted, sent,
                   exit, failed, closedSeen>>
    /\ UNCHANGED <<histVars, storeVars, ctxVars, callVars, appVars>>

\* rx.try_recv() returns Err(Empty): another poll is scheduled, nothing changes.
PollEmpty ==
    /\ rx = "held"
    /\ chan = <<>>
    /\ pc # "returned"
    /\ UNCHANGED streamVars
    /\ UNCHANGED <<histVars, storeVars, ctxVars, callVars, appVars>>

\* rx.try_recv() returns Err(Disconnected): the task has returned and the
\* channel is empty; the consumer releases the receiver.
PollDisconnected ==
    /\ rx = "held"
    /\ chan = <<>>
    /\ pc = "returned"
    /\ closedSeen' = TRUE
    /\ rx' = "dropped"
    /\ UNCHANGED <<body, pc, pos, curRead, lines, sendEv, chan, received, parsed,
                   attempted, sent, exit, failed>>
    /\ UNCHANGED <<histVars, storeVars, ctxVars, callVars, appVars>>

\* The consumer drops the receiver; the events still buffered go with it.
DropReceiver ==
    /\ rx = "held"
    /\ rx' = "dropped"
    /\ chan' = <<>>
    /\ UNCHANGED <<body, pc, pos, curRead, lines, sendEv, received, parsed, attempted,
                   sent, exit, failed, closedSeen>>
    /\ UNCHANGED <<histVars, storeVars, ctxVars, callVars, appVars>>

(***************************************************************************)
(* ChatHistory, src/src/history.rs:26-64.  The application keeps a         *)
(* conversation as (role, content) tuples; the history file keeps          *)
(* HistoryMessage records.                                                 *)
(***************************************************************************)
Roles == {"user", "assistant", "system"}
Contents == {"", "Hello"}
Pairs == Roles \X Contents

\* ChatHistory::new
ChatHistoryNew == [version |-> CURRENT_VERSION, messages |-> <<>>]

\* ChatHistory::from_messages
from_messages(msgs) ==
    [version |-> CURRENT_VERSION,
     messages |-> [i \in 1..Len(msgs) |->
                      [role |-> msgs[i][1], content |-> msgs[i][2]]]]

\* to_messages with the two fields of a message in the wrong order.
to_messages_swapped(h) ==
    [i \in 1..Len(h.messages) |-> <<h.messages[i].content, h.messages[i].role>>]

\* ChatHistory::to_messages
to_messages(h) ==
    [i \in 1..Len(h.messages) |-> <<h.messages[i].role, h.messages[i].content>>]

\* let history = ChatHistory::from_messages(messages.clone());
FromMessages ==
    /\ stage # "idle"
    /\ history' = from_messages(messages)
    /\ stage' = "from"
    /\ UNCHANGED <<messages, restored>>
    /\ UNCHANGED <<streamVars, storeVars, ctxVars, callVars, appVars>>

\* let restored = history.to_messages();
ToMessages ==
    /\ stage # "idle"
    /\ restored' = to_messages(history)
    /\ stage' = IF stage \in {"from", "roundtrip"} THEN "roundtrip" ELSE "to"
    /\ UNCHANGED <<messages, history>>
    /\ UNCHANGED <<streamVars, storeVars, ctxVars, callVars, appVars>>

(***************************************************************************)
(* ChatHistory::trim_to_limit, src/src/history.rs:67-72.  The histories    *)
(* it is applied to hold up to MAX_HISTORY_SIZE + MaxOver messages; the    *)
(* content of a message carries its position, so that two messages of a    *)
(* transcript differ, except in the transcripts of equal messages.         *)
(***************************************************************************)
RoleCycle == <<"user", "assistant", "system">>
LongTag == "The quick brown fox jumps over the lazy dog "
Tags == {"", LongTag}

\* A conversation of n messages whose roles cycle from the k-th role on.
Transcript(tag, k, n) ==
    [i \in 1..n |-> <<RoleCycle[((i + k) % 3) + 1], tag \o ToString(i)>>]

\* A conversation of n equal messages.
Repeated(n) == [i \in 1..n |-> <<"user", "Hello">>]

Transcripts(maxLen) ==
    {Transcript(tag, k, n) : tag \in Tags, k \in 0..2, n \in 0..maxLen}
        \cup {Repeated(n) : n \in 0..maxLen}

\* self.messages.drain(0..excess)
Drain(msgs, excess) == SubSeq(msgs, excess + 1, Len(msgs))

\* trim_to_limit draining from the wrong end: the newest messages go.
trim_to_limit_drops_newest(h) ==
    IF Len(h.messages) > MAX_HISTORY_SIZE
    THEN [h EXCEPT !.messages = SubSeq(@, 1, MAX_HISTORY_SIZE)]
    ELSE h

\* ChatHistory::trim_to_limit
trim_to_limit(h) ==
    IF Len(h.messages) > MAX_HISTORY_SIZE
    THEN [h EXCEPT !.messages = Drain(@, Len(@) - MAX_HISTORY_SIZE)]
    ELSE h

\* history.trim_to_limit();
TrimToLimit ==
    /\ stage \in {"built", "trimmed"}
    /\ history' = trim_to_limit(history)
    /\ stage' = IF stage = "built" THEN "trimmed" ELSE "trimmed twice"
    /\ UNCHANGED <<messages, restored>>
    /\ UNCHANGED <<streamVars, storeVars, ctxVars, callVars, appVars>>

(***************************************************************************)
(* The history file, src/src/history.rs:90-146.  The text of history.json  *)
(* is a sequence of pieces of JSON text, as serde_json's pretty printer    *)
(* writes them; its length in bytes is the sum of the lengths of the       *)
(* pieces.  A file is missing or holds a text; a text can be a cut-off     *)
(* document when a write has failed.                                       *)
(***************************************************************************)
NoFile == [exists |-> FALSE, text |-> <<>>]
FileOf(text) == [exists |-> TRUE, text |-> text]

P_Head == "{\n  \"version\": "
P_Messages == ",\n  \"messages\": ["
P_First == "\n    {\n      \"role\": \""
P_Next == ",\n    {\n      \"role\": \""
P_Content == "\",\n      \"content\": \""
P_EndMessage == "\"\n    }"
P_EmptyArray == "]"
P_EndArray == "\n  ]"
P_Tail == "\n}"

\* The versions a history file of the model can state.
Versions == 0..CURRENT_VERSION

\* The pieces of one HistoryMessage, the i-th of an array.
MessageText(m, i) ==
    <<IF i = 1 THEN P_First ELSE P_Next, m.role, P_Content, m.content, P_EndMessage>>

\* The pieces of an array of messages that is not empty, five to a message.
MessagesText(msgs) ==
    [j \in 1..(5 * Len(msgs)) |->
        MessageText(msgs[((j - 1) \div 5) + 1], ((j - 1) \div 5) + 1)[((j - 1) % 5) + 1]]

\* serde_json::to_writer_pretty of a ChatHistory: the pieces it writes.
ToWriterPretty(h) ==
    <<P_Head, ToString(h.version), P_Messages>>
        \o (IF h.messages = <<>> THEN <<P_EmptyArray>>
            ELSE MessagesText(h.messages) \o <<P_EndArray>>)
        \o <<P_Tail>>

\* The outcome of a parse that fails.
BadJson == [ok |-> FALSE, value |-> [version |-> 0, messages |-> <<>>]]
GoodJson(h) == [ok |-> TRUE, value |-> h]

\* The array of n messages that starts at piece 4, read piece by piece:
\* every message opens, names its role and its content and closes, the
\* array closes after the last one and the document after the array.
ReadMessages(text, n) ==
    IF /\ n >= 1
       /\ Len(text) = 5 * n + 5
       /\ \A i \in 1..n :
             /\ text[5 * i - 1] = (IF i = 1 THEN P_First ELSE P_Next)
             /\ text[5 * i + 1] = P_Content
             /\ text[5 * i + 3] = P_EndMessage
       /\ text[5 * n + 4] = P_EndArray
       /\ text[5 * n + 5] = P_Tail
    THEN [ok |-> TRUE,
          value |-> [i \in 1..n |-> [role |-> text[5 * i], content |-> text[5 * i + 2]]]]
    ELSE [ok |-> FALSE, value |-> <<>>]

\* serde_json::from_reader::<ChatHistory>: the history a text states, or an
\* error when the text is no complete document of that shape.
FromReader(text) ==
    IF /\ Len(text) >= 5
       /\ text[1] = P_Head
       /\ \E v \in Versions : ToString(v) = text[2]
       /\ text[3] = P_Messages
    THEN LET v == CHOOSE v \in Versions : ToString(v) = text[2]
         IN  IF text[4] = P_EmptyArray
             THEN IF Len(text) = 5 /\ text[5] = P_Tail
                  THEN GoodJson([version |-> v, messages |-> <<>>])
                  ELSE BadJson
             ELSE LET r == ReadMessages(text, (Len(text) - 5) \div 5)
                  IN  IF r.ok THEN GoodJson([version |-> v, messages |-> r.value])
                      ELSE BadJson
    ELSE BadJson

\* The capacity of std::io::BufWriter::new, DEFAULT_BUF_SIZE.
BUF_CAPACITY == 8 * 1024

\* The number of bytes of the pieces 1..i of a text, for every i of from..to.
RECURSIVE Ends(_, _, _)
Ends(text, from, to) ==
    IF from > to THEN <<>>
    ELSE IF from = to THEN <<Len(text[from])>>
    ELSE LET mid == (from + to) \div 2
             left == Ends(text, from, mid)
             right == Ends(text, mid + 1, to)
         IN  left \o [i \in 1..Len(right) |-> right[i] + left[Len(left)]]

\* BufWriter::write_all over the pieces of a text, `flushed` pieces of it in
\* the file and the next ones in the buffer: a piece that does not fit into
\* the spare capacity forces a flush of the pieces before it.  The result is
\* the number of pieces in the file after each forced flush; what is left
\* in the buffer is flushed when the writer is dropped.  No piece of the
\* model is as long as the buffer.
RECURSIVE FlushesFrom(_, _)
FlushesFrom(ends, flushed) ==
    LET base == IF flushed = 0 THEN 0 ELSE ends[flushed]
        over == {i \in (flushed + 1)..Len(ends) :
                    /\ ends[i] - base > BUF_CAPACITY
                    /\ (IF i = 1 THEN 0 ELSE ends[i - 1]) - base <= BUF_CAPACITY}
    IN  IF over = {} THEN <<>>
        ELSE LET i == CHOOSE i \in over : TRUE
             IN  <<i - 1>> \o FlushesFrom(ends, i - 1)

Flushes(text) == FlushesFrom(Ends(text, 1, Len(text)), 0)

\* What a flush that fails can leave of the pieces from..to it was writing:
\* write_all has written none or some of them, never all.
PartialWrites(from, to) == {k \in from..(to - 1) : k - from <= MaxPartial}

\* The conversations save_history is called with: empty, short, and around
\* the limit, with short and with long contents.
StoreInputs ==
    {Transcript(tag, 0, n) : tag \in {"", LongTag},
                             n \in {0, 1} \cup (MAX_HISTORY_SIZE..(MAX_HISTORY_SIZE + MaxOver))}

\* save_history writing the whole transcript, without trim_to_limit.
SaveTextUntrimmed(msgs) == ToWriterPretty(from_messages(msgs))

\* The text save_history writes: from_messages, trim_to_limit, to_writer_pretty.
SaveText(msgs) == ToWriterPretty(trim_to_limit(from_messages(msgs)))

\* save_history for each conversation: the text it hands to the writer and
\* the flushes the buffer forces while the text is written.
Saves ==
    [msgs \in StoreInputs |->
        [text |-> SaveText(msgs), flushes |-> Flushes(SaveText(msgs))]]

\* What a history call has returned, and the failure it met.
Returned(op, ok, flt) ==
    /\ call' = [op |-> op, ok |-> ok]
    /\ fault' = flt
    /\ lastWrite' = IF op = "load" THEN lastWrite
                    ELSE [op |-> op, ok |-> ok, fault |-> flt]

\* save_history: fs::create_dir_all(parent)? fails.
SaveDirErr ==
    /\ stage = "store"
    /\ ~dir
    /\ \E msgs \in StoreInputs : messages' = msgs
    /\ Returned("save", FALSE, "create_dir_all")
    /\ UNCHANGED <<dir, file, history, restored, stage>>
    /\ UNCHANGED <<streamVars, ctxVars, callVars, appVars>>

\* save_history: fs::File::create(&path)? fails; the directory is there.
SaveCreateErr ==
    /\ stage = "store"
    /\ \E msgs \in StoreInputs : messages' = msgs
    /\ dir' = TRUE
    /\ Returned("save", FALSE, "create")
    /\ UNCHANGED <<file, history, restored, stage>>
    /\ UNCHANGED <<streamVars, ctxVars, callVars, appVars>>

\* save_history: File::create has truncated the file, and a flush that a
\* full buffer forces inside to_writer_pretty fails: `?` returns the error.
SaveWriteErr ==
    /\ stage = "store"
    /\ \E msgs \in StoreInputs :
          LET text == Saves[msgs].text
              fl == Saves[msgs].flushes
          IN  \E j \in 1..Len(fl) :
                 \E k \in PartialWrites(IF j = 1 THEN 0 ELSE fl[j - 1], fl[j]) :
                    /\ messages' = msgs
                    /\ file' = FileOf(SubSeq(text, 1, k))
    /\ dir' = TRUE
    /\ Returned("save", FALSE, "write")
    /\ UNCHANGED <<history, restored, stage>>
    /\ UNCHANGED <<streamVars, ctxVars, callVars, appVars>>

\* save_history: to_writer_pretty returns Ok with the end of the text still
\* in the buffer; the writer is dropped, its flush fails and drop discards
\* the error: save_history returns Ok(()).
SaveNoFlush ==
    /\ stage = "store"
    /\ \E msgs \in StoreInputs :
          LET text == Saves[msgs].text
              fl == Saves[msgs].flushes
          IN  \E k \in PartialWrites(IF fl = <<>> THEN 0 ELSE fl[Len(fl)], Len(text)) :
                 /\ messages' = msgs
                 /\ file' = FileOf(SubSeq(text, 1, k))
    /\ dir' = TRUE
    /\ Returned("save", TRUE, "flush")
    /\ UNCHANGED <<history, restored, stage>>
    /\ UNCHANGED <<streamVars, ctxVars, callVars, appVars>>

\* save_history: every step succeeds.
SaveOk ==
    /\ stage = "store"
    /\ \E msgs \in StoreInputs :
          /\ messages' = msgs
          /\ file' = FileOf(Saves[msgs].text)
    /\ dir' = TRUE
    /\ Returned("save", TRUE, "none")
    /\ UNCHANGED <<history, restored, stage>>
    /\ UNCHANGED <<streamVars, ctxVars, callVars, appVars>>

\* load_history: !path.exists()
LoadMissing ==
    /\ stage = "store"
    /\ ~file.exists
    /\ history' = ChatHistoryNew
    /\ Returned("load", TRUE, "none")
    /\ UNCHANGED <<dir, file, messages, restored, stage>>
    /\ UNCHANGED <<streamVars, ctxVars, callVars, appVars>>

\* load_history: fs::File::open fails.
LoadOpenErr ==
    /\ stage = "store"
    /\ file.exists
    /\ history' = ChatHistoryNew
    /\ Returned("load", TRUE, "open")
    /\ UNCHANGED <<dir, file, messages, restored, stage>>
    /\ UNCHANGED <<streamVars, ctxVars, callVars, appVars>>

\* load_history: the reader fails inside serde_json::from_reader.
LoadReadErr ==
    /\ stage = "store"
    /\ file.exists
    /\ history' = ChatHistoryNew
    /\ Returned("load", TRUE, "read")
    /\ UNCHANGED <<dir, file, messages, restored, stage>>
    /\ UNCHANGED <<streamVars, ctxVars, callVars, appVars>>

\* load_history falling back on ChatHistory::default(), version 0, when the
\* text is no history.
LoadParsedLenient ==
    /\ stage = "store"
    /\ file.exists
    /\ history' = FromReader(file.text).value
    /\ Returned("load", TRUE, "none")
    /\ UNCHANGED <<dir, file, messages, restored, stage>>
    /\ UNCHANGED <<streamVars, ctxVars, callVars, appVars>>

\* load_history: serde_json::from_reader reads the whole file.
LoadParsed ==
    /\ stage = "store"
    /\ file.exists
    /\ LET r == FromReader(file.text)
       IN  history' = IF r.ok THEN r.value ELSE ChatHistoryNew
    /\ Returned("load", TRUE, "none")
    /\ UNCHANGED <<dir, file, messages, restored, stage>>
    /\ UNCHANGED <<streamVars, ctxVars, callVars, appVars>>

\* clear_history: !path.exists()
ClearMissing ==
    /\ stage = "store"
    /\ ~file.exists
    /\ Returned("clear", TRUE, "none")
    /\ UNCHANGED <<dir, file, messages, history, restored, stage>>
    /\ UNCHANGED <<streamVars, ctxVars, callVars, appVars>>

\* clear_history: fs::remove_file(&path)? fails.
ClearErr ==
    /\ stage = "store"
    /\ file.exists
    /\ Returned("clear", FALSE, "remove_file")
    /\ UNCHANGED <<dir, file, messages, history, restored, stage>>
    /\ UNCHANGED <<streamVars, ctxVars, callVars, appVars>>

\* clear_history emptying the file instead of removing it.
ClearTruncates ==
    /\ stage = "store"
    /\ file.exists
    /\ file' = FileOf(<<>>)
    /\ Returned("clear", TRUE, "none")
    /\ UNCHANGED <<dir, messages, history, restored, stage>>
    /\ UNCHANGED <<streamVars, ctxVars, callVars, appVars>>

\* clear_history: fs::remove_file(&path) removes the file.
ClearOk ==
    /\ stage = "store"
    /\ file.exists
    /\ file' = NoFile
    /\ Returned("clear", TRUE, "none")
    /\ UNCHANGED <<dir, messages, history, restored, stage>>
    /\ UNCHANGED <<streamVars, ctxVars, callVars, appVars>>

NoCall == [op |-> "none", ok |-> TRUE]
NoWrite == [op |-> "none", ok |-> TRUE, fault |-> "none"]

StoreIdle ==
    /\ dir = FALSE
    /\ file = NoFile
    /\ call = NoCall
    /\ fault = "none"
    /\ lastWrite = NoWrite

(***************************************************************************)
(* Context, src/src/context.rs.  A text is a sequence of runs, a run being *)
(* a string repeated n times, so that texts of thousands of bytes stay     *)
(* small; the texts the utilities print have no two adjacent runs of the   *)
(* same string.  An Option is None or Some(value).                         *)
(***************************************************************************)
None == <<>>
Some(v) == <<v>>

Run(str, n) == [s |-> str, n |-> n]
Lit(str) == <<Run(str, 1)>>
Whitespace == {" ", "\n"}

\* str::len: the length of a text in bytes.
RECURSIVE Length(_)
Length(t) == IF t = <<>> THEN 0 ELSE Len(t[1].s) * t[1].n + Length(Tail(t))

\* str::trim: the text without its leading and trailing whitespace.
RECURSIVE TrimStart(_)
TrimStart(t) ==
    IF t # <<>> /\ t[1].s \in Whitespace THEN TrimStart(Tail(t)) ELSE t

RECURSIVE TrimEnd(_)
TrimEnd(t) ==
    IF t # <<>> /\ t[Len(t)].s \in Whitespace THEN TrimEnd(SubSeq(t, 1, Len(t) - 1)) ELSE t

Trim(t) == TrimEnd(TrimStart(t))

\* s.lines().nth(1): the second line of a text, None when it has one line.
SecondLine(t) ==
    LET breaks == {i \in 1..Len(t) : t[i].s = "\n"}
    IN  IF breaks = {} THEN None
        ELSE LET first == CHOOSE i \in breaks : \A j \in breaks : i <= j
                 later == {j \in breaks : j > first}
                 stop == IF later = {} THEN Len(t) + 1
                         ELSE CHOOSE j \in later : \A k \in later : j <= k
             IN  IF t[first].n > 1 THEN Some(<<>>)
                 ELSE IF first = Len(t) THEN None
                 ELSE Some(SubSeq(t, first + 1, stop - 1))

\* What running a utility gives: Command::output() fails, or the process
\* exits with a status and has written bytes that are UTF-8 or not.
SpawnErr == [spawned |-> FALSE, success |-> FALSE, utf8 |-> FALSE, out |-> <<>>]
ExitNonZero(t) == [spawned |-> TRUE, success |-> FALSE, utf8 |-> TRUE, out |-> t]
NonUtf8 == [spawned |-> TRUE, success |-> TRUE, utf8 |-> FALSE, out |-> <<>>]
Ok(t) == [spawned |-> TRUE, success |-> TRUE, utf8 |-> TRUE, out |-> t]

\* run_cmd returning the output of a utility that has exited with an error.
run_cmd_any_status(o) ==
    IF ~o.spawned THEN None
    ELSE IF ~o.utf8 THEN None
    ELSE IF Trim(o.out) = <<>> THEN None
    ELSE Some(Trim(o.out))

\* run_cmd: the trimmed stdout of a utility that has succeeded, if not empty.
run_cmd(o) ==
    IF ~o.spawned THEN None
    ELSE IF ~o.success THEN None
    ELSE IF ~o.utf8 THEN None
    ELSE IF Trim(o.out) = <<>> THEN None
    ELSE Some(Trim(o.out))

\* Option::filter(|s| s.len() < limit)
Shorter(opt, limit) ==
    IF opt # None /\ Length(opt[1]) < limit THEN opt ELSE None

\* Option::unwrap_or_default
UnwrapOrDefault(opt) == IF opt = None THEN <<>> ELSE opt[1]

\* Context::get_clipboard
get_clipboard(o) == Shorter(run_cmd(o), MAX_CONTENT_SIZE)

\* get_selection without the filter that drops a copy of the clipboard.
get_selection_keeps_copy(o, clipboard) == Shorter(run_cmd(o), MAX_CONTENT_SIZE)

\* Context::get_selection
get_selection(o, clipboard) ==
    LET sel == Shorter(run_cmd(o), MAX_CONTENT_SIZE)
    IN  IF sel # None /\ clipboard = sel THEN None ELSE sel

\* Context::get_system_info
get_system_info(lsb_release, uname, free) ==
    LET distro == UnwrapOrDefault(run_cmd(lsb_release))
        kernel == UnwrapOrDefault(run_cmd(uname))
        mem == IF run_cmd(free) = None THEN None ELSE SecondLine(run_cmd(free)[1])
    IN  IF distro # <<>>
        THEN Some(Lit("OS: ") \o distro \o Lit(", Kernel: ") \o kernel
                      \o Lit(", Memory: ") \o UnwrapOrDefault(mem))
        ELSE None

\* get_recent_errors filtering with the ceiling of the clipboard.
get_recent_errors_content_size(o) == Shorter(run_cmd(o), MAX_CONTENT_SIZE)

\* Context::get_recent_errors
get_recent_errors(o) == Shorter(run_cmd(o), MAX_ERROR_SIZE)

\* Context::default()
ContextDefault ==
    [clipboard |-> None, selection |-> None, system_info |-> None, recent_errors |-> None]

\* Context::gather, given what each utility does.
gather(outs) ==
    LET clipboard == get_clipboard(outs.clipboard)
        selection == get_selection(outs.selection, clipboard)
    IN  [clipboard |-> clipboard,
         selection |-> selection,
         system_info |-> get_system_info(outs.lsb_release, outs.uname, outs.free),
         recent_errors |-> get_recent_errors(outs.journalctl)]

\* The literals of format; the three backquotes of a code fence are written
\* as three apostrophes.
L_Clipboard == Lit("\n\n## Clipboard:\n'''\n")
L_Selected == Lit("\n\n## Selected text:\n'''\n")
L_System == Lit("\n\n## System: ")
L_Errors == Lit("\n\n## Recent errors:\n'''\n")
L_Fence == Lit("\n'''")

\* Context::format with the selected text before the clipboard.
format_selection_first(ctx, base_prompt) ==
    base_prompt
        \o (IF ctx.selection # None THEN L_Selected \o ctx.selection[1] \o L_Fence ELSE <<>>)
        \o (IF ctx.clipboard # None THEN L_Clipboard \o ctx.clipboard[1] \o L_Fence ELSE <<>>)
        \o (IF ctx.system_info # None THEN L_System \o ctx.system_info[1] ELSE <<>>)
        \o (IF ctx.recent_errors # None THEN L_Errors \o ctx.recent_errors[1] \o L_Fence ELSE <<>>)

\* Context::format
format(ctx, base_prompt) ==
    base_prompt
        \o (IF ctx.clipboard # None THEN L_Clipboard \o ctx.clipboard[1] \o L_Fence ELSE <<>>)
        \o (IF ctx.selection # None THEN L_Selected \o ctx.selection[1] \o L_Fence ELSE <<>>)
        \o (IF ctx.system_info # None THEN L_System \o ctx.system_info[1] ELSE <<>>)
        \o (IF ctx.recent_errors # None THEN L_Errors \o ctx.recent_errors[1] \o L_Fence ELSE <<>>)

L_Search == Lit("## Web Search Results\n\n")

\* web::format_results
format_results(result) ==
    L_Search \o result.summary
        \o (IF result.source # <<>>
            THEN Lit("\n\nSource: ") \o result.source \o Lit(" (") \o result.url \o Lit(")")
            ELSE <<>>)
        \o (IF result.related # <<>>
            THEN Lit("\n\nRelated info:\n") \o Lit("- ") \o result.related \o Lit("\n")
            ELSE <<>>)

\* The search results of the model: a summary with its source and one
\* related item, and a summary alone.
SearchResults ==
    {[summary |-> Lit("COSMIC is a desktop environment."), source |-> Lit("Wikipedia"),
      url |-> Lit("https://en.wikipedia.org/wiki/COSMIC"), related |-> Lit("Pop!_OS")],
     [summary |-> Lit("COSMIC"), source |-> <<>>, url |-> <<>>, related |-> <<>>]}

\* The section gather_with_search embeds: none when the query asks for no
\* search or the search finds nothing, else the formatted results.
Searches == {None} \cup {Some(format_results(r)) : r \in SearchResults}

\* The prompt with the search section appended after the other sections.
format_with_search(ctx, found, base_prompt) ==
    format(ctx, base_prompt) \o (IF found # None THEN Lit("\n\n") \o found[1] ELSE <<>>)

\* The texts the utilities print.
A(n) == <<Run("a", n)>>
B(n) == <<Run("b", n)>>
Padded(t) == <<Run(" ", 1)>> \o t \o <<Run("\n", 2)>>
OnlySpace == <<Run(" ", 1), Run("\n", 1)>>
Around(limit) == (limit - Near)..(limit + Near)

Failures == {SpawnErr, ExitNonZero(A(3)), NonUtf8, Ok(<<>>)}

ClipboardOutputs ==
    Failures \cup {Ok(OnlySpace), Ok(A(3)), Ok(B(3)), Ok(Padded(A(3)))}
        \cup {Ok(A(n)) : n \in Around(MAX_CONTENT_SIZE)}
        \cup {Ok(Padded(A(MAX_CONTENT_SIZE - 1)))}

JournalOutputs ==
    {SpawnErr, ExitNonZero(A(3)), Ok(<<>>), Ok(A(3))}
        \cup {Ok(A(n)) : n \in Around(MAX_ERROR_SIZE)}

DistroOutputs == {SpawnErr, Ok(OnlySpace), Ok(Lit("Pop!_OS 24.04 LTS"))}
KernelOutputs == {NonUtf8, Ok(Lit("6.9.3"))}
FreeOutputs ==
    {ExitNonZero(<<>>),
     Ok(Lit("total used free")),
     Ok(Lit("total used free") \o <<Run("\n", 1)>> \o Lit("Mem: 16G 4G 12G")
            \o <<Run("\n", 1)>> \o Lit("Swap: 0B 0B 0B"))}

Utilities == {"clipboard", "selection", "lsb_release", "uname", "free", "journalctl"}

OutputSets ==
    [clipboard : ClipboardOutputs, selection : ClipboardOutputs,
     lsb_release : DistroOutputs, uname : KernelOutputs, free : FreeOutputs,
     journalctl : JournalOutputs]

NoOutputs ==
    [clipboard |-> SpawnErr, selection |-> SpawnErr, lsb_release |-> SpawnErr,
     uname |-> SpawnErr, free |-> SpawnErr, journalctl |-> SpawnErr]

\* The base prompts: none, and the opening of ollama::DEFAULT_SYSTEM_PROMPT.
BasePrompts == {<<>>, Lit("You are a helpful Linux assistant running locally.")}

\* let context = Context::gather();
Gather ==
    /\ stage = "context"
    /\ context' = gather(outputs)
    /\ search' = None
    /\ stage' = "gathered"
    /\ UNCHANGED <<outputs, basePrompt, prompt, messages, history, restored>>
    /\ UNCHANGED <<streamVars, storeVars, callVars, appVars>>

\* let context = Context::gather_with_search(&query).await;
GatherWithSearch ==
    /\ stage = "context"
    /\ context' = gather(outputs)
    /\ search' \in Searches
    /\ stage' = "gathered"
    /\ UNCHANGED <<outputs, basePrompt, prompt, messages, history, restored>>
    /\ UNCHANGED <<streamVars, storeVars, callVars, appVars>>

\* let system_prompt = context.format(ollama::DEFAULT_SYSTEM_PROMPT);
Format ==
    /\ stage = "gathered"
    /\ prompt' = format_with_search(context, search, basePrompt)
    /\ stage' = "formatted"
    /\ UNCHANGED <<outputs, context, search, basePrompt, messages, history, restored>>
    /\ UNCHANGED <<streamVars, storeVars, callVars, appVars>>

\* The result of a call that has not returned yet.
NoOutput == <<"none">>

\* The value a call has returned.
Return(value) == <<"return", value>>

(***************************************************************************)
(* format_size, src/src/ollama.rs:122-130.  A byte count is a number of    *)
(* whole GiB and a rest below one GiB, so that counts of several GiB stay  *)
(* within the integers of the model checker.  `bytes as f64` is exact for  *)
(* the counts of the model (below 2^53), and so is the division by a power *)
(* of two; the formatting rounds the quotient to the nearest value of the  *)
(* precision asked for, a tie to the even digit.                           *)
(***************************************************************************)
GB == 1024 * 1024 * 1024
MB == 1024 * 1024

Size(gib, rest) == [gib |-> gib, rest |-> rest]

\* The nearest integer to whole + num / den, for 0 <= num < den.
RoundHalfEven(whole, num, den) ==
    IF 2 * num > den THEN whole + 1
    ELSE IF 2 * num < den THEN whole
    ELSE IF whole % 2 = 0 THEN whole ELSE whole + 1

\* The rest of a byte count in twentieths of a GiB: the whole twentieths
\* and whether a fraction of a twentieth is left over.
Twentieths(rest) ==
    LET quarter == GB \div 4
        fine == 5 * (rest % quarter)
    IN  [whole |-> 5 * (rest \div quarter) + fine \div quarter,
         more |-> fine % quarter # 0]

\* format!("{:.1}", bytes as f64 / GB as f64), in tenths of a GiB.
Tenths(bytes) ==
    LET t == Twentieths(bytes.rest)
        down == 10 * bytes.gib + t.whole \div 2
    IN  IF t.whole % 2 = 0 THEN down
        ELSE IF t.more THEN down + 1
        ELSE IF down % 2 = 0 THEN down ELSE down + 1

\* format_size with `bytes > GB` for `bytes >= GB`.
format_size_above_gb(bytes) ==
    IF bytes.gib > 1 \/ (bytes.gib = 1 /\ bytes.rest > 0)
    THEN ToString(Tenths(bytes) \div 10) \o "." \o ToString(Tenths(bytes) % 10) \o " GB"
    ELSE ToString(RoundHalfEven(bytes.gib * 1024 + bytes.rest \div MB,
                                bytes.rest % MB, MB)) \o " MB"

\* fn format_size(bytes: u64) -> String
format_size(bytes) ==
    IF bytes.gib >= 1
    THEN ToString(Tenths(bytes) \div 10) \o "." \o ToString(Tenths(bytes) % 10) \o " GB"
    ELSE ToString(RoundHalfEven(bytes.rest \div MB, bytes.rest % MB, MB)) \o " MB"

\* The byte counts format_size is called with: around the whole and the
\* half mebibytes, the quarters of a GiB (the ties of one decimal) and the
\* end of a GiB, in each of the first GiB.
SizePoints == {0, MB \div 2, MB, 3 * (MB \div 2), 100 * MB, GB \div 4, GB \div 2,
               3 * (GB \div 4), GB - MB \div 2, GB - 1}

SizeInputs ==
    {Size(g, r) : g \in 0..MaxGiB,
                  r \in {p + d : p \in SizePoints, d \in (0 - Near)..Near} \cap 0..(GB - 1)}

\* name: info.name.clone(), display_size: format_size(info.size)
FormatSize ==
    /\ stage = "size"
    /\ output = NoOutput
    /\ output' = Return(format_size(input))
    /\ UNCHANGED <<input, requests>>
    /\ UNCHANGED <<streamVars, histVars, storeVars, ctxVars, appVars>>

(***************************************************************************)
(* Client::chat, src/src/ollama.rs:186-223, and the request payload it     *)
(* shares with Client::chat_stream, src/src/ollama.rs:235-246.  A response *)
(* body is a sequence of JSON tokens:                                      *)
(*    "{"  "}"       the braces of the response object                     *)
(*    "message"      the message field, followed by its role and content   *)
(*    "done"         another field of the object, which serde ignores      *)
(***************************************************************************)
\* Message::system
MessageSystem(content) == [role |-> "system", content |-> content]

\* ChatRequest with the system message after the history.
ChatRequestSystemLast(model, system_prompt, msgs, stream) ==
    [model |-> model,
     messages |-> [i \in 1..Len(msgs) |-> [role |-> msgs[i][1], content |-> msgs[i][2]]]
                  \o <<MessageSystem(system_prompt)>>,
     stream |-> stream]

\* let mut ollama_messages = vec![Message::system(system_prompt)];
\* ollama_messages.extend(..); ChatRequest { model, messages, stream }
ChatRequest(model, system_prompt, msgs, stream) ==
    [model |-> model,
     messages |-> <<MessageSystem(system_prompt)>>
                  \o [i \in 1..Len(msgs) |-> [role |-> msgs[i][1], content |-> msgs[i][2]]],
     stream |-> stream]

\* What the server does with a request: the transport fails, or a response
\* arrives with a status and a body.
TransportFailure(e) == [arrived |-> FALSE, error |-> e, status |-> 0, body |-> <<>>]
Response(status, b) == [arrived |-> TRUE, error |-> "", status |-> status, body |-> b]

\* StatusCode::is_success
IsSuccess(status) == status >= 200 /\ status < 300

\* The Display of a StatusCode.
StatusText(status) ==
    CASE status = 200 -> "200 OK"
      [] status = 201 -> "201 Created"
      [] status = 404 -> "404 Not Found"
      [] status = 500 -> "500 Internal Server Error"

\* response.json::<ChatResponse>(): `message` is a required field with a
\* role and a content; other fields are ignored; a text that is no whole
\* JSON object is an error.
ChatResponseFromJson(b) ==
    IF b = <<>> \/ b[1] # "{" \/ b[Len(b)] # "}"
    THEN [ok |-> FALSE, content |-> "", error |-> "EOF while parsing"]
    ELSE IF Len(b) >= 5 /\ b[2] = "message"
         THEN [ok |-> TRUE, content |-> b[4], error |-> ""]
         ELSE [ok |-> FALSE, content |-> "", error |-> "missing field message"]

ChatOk(content) == [ok |-> TRUE, text |-> content]
ChatErr(msg) == [ok |-> FALSE, text |-> msg]

\* What chat returns for a reply of the server when it takes the body of
\* every response for a chat response, whatever the status.
chat_result_any_status(reply) ==
    IF ~reply.arrived THEN ChatErr("Connection error: " \o reply.error)
    ELSE LET r == ChatResponseFromJson(reply.body) IN
         IF ~r.ok THEN ChatErr("Parse error: " \o r.error)
         ELSE ChatOk(r.content)

\* What chat returns for a reply of the server: lines 205-222.
chat_result(reply) ==
    IF ~reply.arrived THEN ChatErr("Connection error: " \o reply.error)
    ELSE IF ~IsSuccess(reply.status)
         THEN ChatErr("Ollama error: " \o StatusText(reply.status))
    ELSE LET r == ChatResponseFromJson(reply.body) IN
         IF ~r.ok THEN ChatErr("Parse error: " \o r.error)
         ELSE ChatOk(r.content)

\* self.http.post(&self.url).json(&request).send(): one request.
Send(request) == <<request>>

\* The arguments of chat and chat_stream.
Models == {"llama3", "qwen"}
SystemPrompts == {"", "Be brief."}
Histories == UNION {[1..n -> Pairs] : n \in 0..MaxPairs}

ChatInputs ==
    [fn : {"chat", "chat_stream"}, model : Models, system_prompt : SystemPrompts,
     messages : Histories]

\* The replies of the server.
ValidBody == <<"{", "message", "assistant", "Hello", "}">>
ValidBodyMore == <<"{", "message", "assistant", "", "done", "}">>
NoMessageBody == <<"{", "done", "}">>
CutBody == <<"{", "message", "assistant", "Hello">>
NoBody == <<>>

Replies ==
    {TransportFailure(e) : e \in {"connection refused", "timed out"}}
    \cup {Response(s, b) : s \in {200, 201, 404, 500},
                           b \in {ValidBody, ValidBodyMore, NoMessageBody, CutBody, NoBody}}

\* chat builds its request and sends it.
ChatSend ==
    /\ stage = "chat"
    /\ input.fn = "chat"
    /\ requests = <<>>
    /\ output = NoOutput
    /\ requests' = requests
                   \o Send(ChatRequest(input.model, input.system_prompt, input.messages, FALSE))
    /\ UNCHANGED <<input, output>>
    /\ UNCHANGED <<streamVars, histVars, storeVars, ctxVars, appVars>>

\* send().await completes and chat returns.
ChatReturn ==
    /\ stage = "chat"
    /\ input.fn = "chat"
    /\ requests # <<>>
    /\ output = NoOutput
    /\ \E reply \in Replies : output' = Return([reply |-> reply, result |-> chat_result(reply)])
    /\ UNCHANGED <<input, requests>>
    /\ UNCHANGED <<streamVars, histVars, storeVars, ctxVars, appVars>>

\* The task of chat_stream builds its request and sends it.
ChatStreamSend ==
    /\ stage = "chat"
    /\ input.fn = "chat_stream"
    /\ requests = <<>>
    /\ requests' = requests
                   \o Send(ChatRequest(input.model, input.system_prompt, input.messages, TRUE))
    /\ UNCHANGED <<input, output>>
    /\ UNCHANGED <<streamVars, histVars, storeVars, ctxVars, appVars>>

(***************************************************************************)
(* web::search, src/src/web.rs:39-89.  A query is a sequence of            *)
(* characters; the other texts are strings.                                *)
(***************************************************************************)
\* DdgResponse and the ways the request can fail to produce one.
DdgResponse(abstract_text, abstract_source, abstract_url, related_topics) ==
    [ok |-> TRUE, abstract_text |-> abstract_text, abstract_source |-> abstract_source,
     abstract_url |-> abstract_url, related_topics |-> related_topics]
NoDdgResponse(why) ==
    [ok |-> FALSE, abstract_text |-> why, abstract_source |-> "", abstract_url |-> "",
     related_topics |-> <<>>]

\* Iterator::take
Take(seq, n) == SubSeq(seq, 1, Min(n, Len(seq)))

\* related_topics.iter().filter_map(|t| t.text.clone())
TopicTexts(topics) ==
    LET present == SelectSeq(topics, LAMBDA t : t # None)
    IN  [i \in 1..Len(present) |-> present[i][1]]

\* [String]::join
RECURSIVE Join(_, _)
Join(texts, sep) ==
    IF texts = <<>> THEN ""
    ELSE IF Len(texts) = 1 THEN texts[1]
    ELSE texts[1] \o sep \o Join(Tail(texts), sep)

\* urlencoding::encode: letters, digits and - _ . ~ stay, every other byte
\* becomes a percent sign and two hexadecimal digits.
Unreserved == {"a", "b", "r", "s", "t", "u", "7", "-", "_", ".", "~"}
PercentCode(c) ==
    CASE c = " " -> "%20"
      [] c = "&" -> "%26"
      [] c = "?" -> "%3F"

RECURSIVE UrlEncode(_)
UrlEncode(query) ==
    IF query = <<>> THEN ""
    ELSE (IF query[1] \in Unreserved THEN query[1] ELSE PercentCode(query[1]))
         \o UrlEncode(Tail(query))

\* search with every related topic text kept as a related item.
web_search_all_related(query, ddg) ==
    IF ~ddg.ok THEN None
    ELSE IF ddg.abstract_text # ""
         THEN Some([summary |-> ddg.abstract_text, source |-> ddg.abstract_source,
                    url |-> ddg.abstract_url,
                    related |-> TopicTexts(ddg.related_topics)])
    ELSE LET related == Take(TopicTexts(ddg.related_topics), 5)
         IN  IF related # <<>>
             THEN Some([summary |-> Join(related, "\n\n"), source |-> "DuckDuckGo",
                        url |-> "https://duckduckgo.com/?q=" \o UrlEncode(query),
                        related |-> <<>>])
             ELSE None

\* pub async fn search(query: &str) -> Option<SearchResult>, given what the
\* request has produced.
web_search(query, ddg) ==
    IF ~ddg.ok THEN None
    ELSE IF ddg.abstract_text # ""
         THEN Some([summary |-> ddg.abstract_text, source |-> ddg.abstract_source,
                    url |-> ddg.abstract_url,
                    related |-> Take(TopicTexts(ddg.related_topics), 3)])
    ELSE LET related == Take(TopicTexts(ddg.related_topics), 5)
         IN  IF related # <<>>
             THEN Some([summary |-> Join(related, "\n\n"), source |-> "DuckDuckGo",
                        url |-> "https://duckduckgo.com/?q=" \o UrlEncode(query),
                        related |-> <<>>])
             ELSE None

\* The queries and the replies of the search service: up to MaxTopics
\* related topics, each with its own text or with none.
Queries == {<<"r", "u", "s", "t">>, <<"a", " ", "b", "&", "7", "?">>}

TopicLists ==
    UNION {{[i \in 1..n |-> IF has[i] THEN Some("topic " \o ToString(i)) ELSE None] :
               has \in [1..n -> BOOLEAN]} : n \in 0..MaxTopics}

DdgReplies ==
    {NoDdgResponse(why) : why \in {"send", "json"}}
    \cup {DdgResponse(a, "Wikipedia", "https://en.wikipedia.org/wiki/Rust", t) :
             a \in {"", "Rust is a language."}, t \in TopicLists}

SearchInputs == [query : Queries, ddg : DdgReplies]

\* search is called and returns.
WebSearch ==
    /\ stage = "search"
    /\ output = NoOutput
    /\ output' = Return(web_search(input.query, input.ddg))
    /\ UNCHANGED <<input, requests>>
    /\ UNCHANGED <<streamVars, histVars, storeVars, ctxVars, appVars>>

(***************************************************************************)
(* The application, src/src/app.rs: AppModel and its update function.  The *)
(* runtime calls update with one message at a time; the messages and the   *)
(* future that tasks have produced and update has not yet been called with *)
(* are `pending`, each a pair of its name and its text.  The input text is *)
(* a text of runs; the contents of the conversation are strings.           *)
(***************************************************************************)
Msg(name, text) == <<name, text>>
NoMsg == Msg("none", "")

WELCOME == "Hi! I'm your local AI assistant. Copy text for context, then ask me anything."
CLEARED == "Chat cleared. How can I help?"

\* A text of runs as a string.
RECURSIVE AsString(_)
AsString(t) ==
    IF t = <<>> THEN ""
    ELSE IF t[1].n = 0 THEN AsString(Tail(t))
    ELSE t[1].s \o AsString(<<Run(t[1].s, t[1].n - 1)>> \o Tail(t))

\* The content of a Chunk event as a string: its characters, each by name.
RECURSIVE ContentString(_)
ContentString(text) ==
    IF text = <<>> THEN "" ELSE text[1] \o ContentString(Tail(text))

\* What the user can type into the input field.
InputTexts == {<<>>, Lit(" "), <<Run(" ", 1), Run("Hi", 1)>>}

\* The response bodies of the chats of the application.
AppLineKinds == {ContentA, DoneLine, Malformed}
AppBodies == {Encode(s) : s \in UNION {[1..n -> AppLineKinds] : n \in 0..MaxAppLines}}

\* handle_submit ignoring a Submit only when the input is blank.
SubmitIgnoredWhenBlank == Trim(input_text) = <<>>

\* if self.input_text.trim().is_empty() || self.waiting { return Task::none(); }
SubmitIgnored == Trim(input_text) = <<>> \/ waiting

\* Message::StreamChunk: the content goes to the last message when it is
\* an assistant message.
stream_chunk(msgs, content) ==
    IF msgs # <<>> /\ msgs[Len(msgs)][1] = "assistant"
    THEN [msgs EXCEPT ![Len(msgs)] = <<"assistant", msgs[Len(msgs)][2] \o content>>]
    ELSE msgs

\* Message::StreamError that only fills an empty assistant message.
stream_error_fills_only(msgs, err) ==
    IF msgs = <<>> THEN msgs
    ELSE IF msgs[Len(msgs)][1] = "assistant" /\ msgs[Len(msgs)][2] = ""
         THEN [msgs EXCEPT ![Len(msgs)] = <<"assistant", "Error: " \o err>>]
    ELSE msgs

\* Message::StreamError: the error text replaces an empty last assistant
\* message and is pushed as a new message after any other last message.
stream_error(msgs, err) ==
    IF msgs = <<>> THEN msgs
    ELSE IF msgs[Len(msgs)][1] = "assistant" /\ msgs[Len(msgs)][2] = ""
         THEN [msgs EXCEPT ![Len(msgs)] = <<"assistant", "Error: " \o err>>]
    ELSE Append(msgs, <<"assistant", "Error: " \o err>>)

\* let msg = match event { Chunk(content) => StreamChunk(content), .. }
MessageOf(ev) ==
    CASE ev[1] = "Chunk" -> Msg("StreamChunk", ContentString(ev[2]))
      [] ev[1] = "Done" -> Msg("StreamDone", "")
      [] ev[1] = "Error" -> Msg("StreamError", ev[2][1])

\* What save_history(msgs) can do to the directory and the file, and what
\* it returns; the application discards the result.  The text of a
\* conversation of the application is shorter than the buffer of the
\* writer, so nothing reaches the file before the writer is dropped.
SaveHistoryOutcomes(msgs) ==
    LET text == SaveText(msgs)
    IN  (IF dir THEN {}
         ELSE {[dir |-> FALSE, file |-> file, ok |-> FALSE, fault |-> "create_dir_all"]})
        \cup {[dir |-> TRUE, file |-> file, ok |-> FALSE, fault |-> "create"]}
        \cup {[dir |-> TRUE, file |-> FileOf(SubSeq(text, 1, k)), ok |-> TRUE,
               fault |-> "flush"] : k \in PartialWrites(0, Len(text))}
        \cup {[dir |-> TRUE, file |-> FileOf(text), ok |-> TRUE, fault |-> "none"]}

\* What clear_history() can do to the file, and what it returns.
ClearHistoryOutcomes ==
    IF ~file.exists THEN {[file |-> file, ok |-> TRUE, fault |-> "none"]}
    ELSE {[file |-> NoFile, ok |-> TRUE, fault |-> "none"],
          [file |-> file, ok |-> FALSE, fault |-> "remove_file"]}

\* poll_stream giving up polling when the channel is empty.
PollNoMore(msgs, i) == RemoveAt(msgs, i)

\* Err(TryRecvError::Empty): another PollStream is scheduled after 10 ms.
PollAgain(msgs, i) == Append(RemoveAt(msgs, i), Msg("PollStream", ""))

\* Message::InputChanged(text)
InputChanged ==
    /\ stage = "app"
    /\ \E text \in InputTexts :
          /\ input_text' = text
          /\ lastMsg' = Msg("InputChanged", "")
    /\ UNCHANGED <<waiting, stream_rx, pending, target, submits, submitted>>
    /\ UNCHANGED <<streamVars, histVars, storeVars, ctxVars, callVars>>

\* Message::Submit, AppModel::handle_submit
Submit ==
    /\ stage = "app"
    /\ lastMsg' = Msg("Submit", "")
    /\ IF SubmitIgnored
       THEN UNCHANGED <<messages, input_text, waiting, pending, submits, submitted>>
       ELSE /\ submits < MaxSubmits
            /\ messages' = Append(messages, <<"user", AsString(input_text)>>)
            /\ input_text' = <<>>
            /\ waiting' = TRUE
            /\ pending' = Append(pending, Msg("start_ollama_stream", ""))
            /\ submits' = submits + 1
            /\ submitted' = AsString(input_text)
    /\ UNCHANGED <<stream_rx, target>>
    /\ UNCHANGED <<history, restored, stage>>
    /\ UNCHANGED <<streamVars, storeVars, ctxVars, callVars>>

\* The future of Task::perform in handle_submit: start_ollama_stream calls
\* chat_stream, which creates the channel and spawns the task, and the
\* runtime maps the receiver to Message::StreamReady.
StartOllamaStream ==
    /\ stage = "app"
    /\ pc \in {"idle", "returned"}
    /\ \E i \in 1..Len(pending) :
          /\ pending[i] = Msg("start_ollama_stream", "")
          /\ pending' = Append(RemoveAt(pending, i), Msg("StreamReady", ""))
    /\ body' \in AppBodies
    /\ pc' = "connect"
    /\ rx' = "held"
    /\ chan' = <<>>
    /\ pos' = 0
    /\ curRead' = <<>>
    /\ lines' = <<>>
    /\ sendEv' = NoEv
    /\ received' = <<>>
    /\ parsed' = <<>>
    /\ attempted' = <<>>
    /\ sent' = <<>>
    /\ exit' = "none"
    /\ failed' = 0
    /\ closedSeen' = FALSE
    /\ UNCHANGED <<input_text, waiting, stream_rx, target, submits, submitted, lastMsg>>
    /\ UNCHANGED <<histVars, storeVars, ctxVars, callVars>>

\* Message::StreamReady(rx)
StreamReady ==
    /\ stage = "app"
    /\ \E i \in 1..Len(pending) :
          /\ pending[i] = Msg("StreamReady", "")
          /\ pending' = Append(RemoveAt(pending, i), Msg("PollStream", ""))
    /\ stream_rx' = TRUE
    /\ messages' = Append(messages, <<"assistant", "">>)
    /\ target' = Len(messages) + 1
    /\ lastMsg' = Msg("StreamReady", "")
    /\ UNCHANGED <<input_text, waiting, submits, submitted>>
    /\ UNCHANGED <<history, restored, stage>>
    /\ UNCHANGED <<streamVars, storeVars, ctxVars, callVars>>

\* Message::PollStream, AppModel::poll_stream
PollStream ==
    /\ stage = "app"
    /\ \E i \in 1..Len(pending) :
          /\ pending[i] = Msg("PollStream", "")
          /\ IF ~stream_rx
             THEN /\ pending' = RemoveAt(pending, i)
                  /\ UNCHANGED <<chan, received, rx, closedSeen, waiting, stream_rx>>
             ELSE IF chan # <<>>
             THEN /\ pending' = Append(RemoveAt(pending, i),
                                       MessageOf(chan[TryRecvIndex(chan)]))
                  /\ received' = Append(received, chan[TryRecvIndex(chan)])
                  /\ chan' = RemoveAt(chan, TryRecvIndex(chan))
                  /\ UNCHANGED <<rx, closedSeen, waiting, stream_rx>>
             ELSE IF pc # "returned"
             THEN /\ pending' = PollAgain(pending, i)
                  /\ UNCHANGED <<chan, received, rx, closedSeen, waiting, stream_rx>>
             ELSE /\ pending' = RemoveAt(pending, i)
                  /\ waiting' = FALSE
                  /\ stream_rx' = FALSE
                  /\ rx' = "dropped"
                  /\ closedSeen' = TRUE
                  /\ UNCHANGED <<chan, received>>
    /\ lastMsg' = Msg("PollStream", "")
    /\ UNCHANGED <<input_text, target, submits, submitted>>
    /\ UNCHANGED <<body, pc, pos, curRead, lines, sendEv, parsed, attempted, sent,
                   exit, failed>>
    /\ UNCHANGED <<histVars, storeVars, ctxVars, callVars>>

\* Message::StreamChunk(content)
StreamChunk ==
    /\ stage = "app"
    /\ \E i \in 1..Len(pending) :
          /\ pending[i][1] = "StreamChunk"
          /\ pending' = Append(RemoveAt(pending, i), Msg("PollStream", ""))
          /\ messages' = stream_chunk(messages, pending[i][2])
          /\ lastMsg' = pending[i]
    /\ UNCHANGED <<input_text, waiting, stream_rx, target, submits, submitted>>
    /\ UNCHANGED <<history, restored, stage>>
    /\ UNCHANGED <<streamVars, storeVars, ctxVars, callVars>>

\* Message::StreamDone
StreamDone ==
    /\ stage = "app"
    /\ \E i \in 1..Len(pending) :
          /\ pending[i] = Msg("StreamDone", "")
          /\ pending' = RemoveAt(pending, i)
    /\ waiting' = FALSE
    /\ stream_rx' = FALSE
    /\ rx' = "dropped"
    /\ chan' = <<>>
    /\ \E o \in SaveHistoryOutcomes(messages) :
          /\ dir' = o.dir
          /\ file' = o.file
          /\ Returned("save", o.ok, o.fault)
    /\ lastMsg' = Msg("StreamDone", "")
    /\ UNCHANGED <<input_text, target, submits, submitted>>
    /\ UNCHANGED <<body, pc, pos, curRead, lines, sendEv, received, parsed, attempted,
                   sent, exit, failed, closedSeen>>
    /\ UNCHANGED <<histVars, ctxVars, callVars>>

\* Message::StreamError(err)
StreamError ==
    /\ stage = "app"
    /\ \E i \in 1..Len(pending) :
          /\ pending[i][1] = "StreamError"
          /\ pending' = RemoveAt(pending, i)
          /\ messages' = stream_error(messages, pending[i][2])
          /\ lastMsg' = pending[i]
    /\ waiting' = FALSE
    /\ stream_rx' = FALSE
    /\ rx' = "dropped"
    /\ chan' = <<>>
    /\ UNCHANGED <<input_text, target, submits, submitted>>
    /\ UNCHANGED <<body, pc, pos, curRead, lines, sendEv, received, parsed, attempted,
                   sent, exit, failed, closedSeen>>
    /\ UNCHANGED <<history, restored, stage>>
    /\ UNCHANGED <<storeVars, ctxVars, callVars>>

\* Message::ClearChat
ClearChat ==
    /\ stage = "app"
    /\ messages' = <<<<"assistant", CLEARED>>>>
    /\ \E o \in ClearHistoryOutcomes :
          /\ file' = o.file
          /\ Returned("clear", o.ok, o.fault)
    /\ target' = 0
    /\ lastMsg' = Msg("ClearChat", "")
    /\ UNCHANGED <<input_text, waiting, stream_rx, pending, submits, submitted>>
    /\ UNCHANGED <<history, restored, stage, dir>>
    /\ UNCHANGED <<streamVars, ctxVars, callVars>>

\* No call of format_size, chat or search has been made.
CallIdle ==
    /\ input = <<>>
    /\ requests = <<>>
    /\ output = NoOutput

\* The application has not been started.
AppIdle ==
    /\ input_text = <<>>
    /\ waiting = FALSE
    /\ stream_rx = FALSE
    /\ pending = <<>>
    /\ target = 0
    /\ submits = 0
    /\ submitted = ""
    /\ lastMsg = NoMsg

CtxIdle ==
    /\ outputs = NoOutputs
    /\ context = ContextDefault
    /\ search = None
    /\ basePrompt = <<>>
    /\ prompt = <<>>

StreamIdle ==
    /\ pc = "idle"
    /\ pos = 0
    /\ curRead = <<>>
    /\ lines = <<>>
    /\ sendEv = NoEv
    /\ chan = <<>>
    /\ rx = "none"
    /\ received = <<>>
    /\ parsed = <<>>
    /\ attempted = <<>>
    /\ sent = <<>>
    /\ exit = "none"
    /\ failed = 0
    /\ closedSeen = FALSE

HistIdle ==
    /\ messages = <<>>
    /\ history = ChatHistoryNew
    /\ restored = <<>>
    /\ stage = "idle"

HistInit ==
    /\ messages \in UNION {[1..n -> Pairs] : n \in 0..MaxPairs}
    /\ history = ChatHistoryNew
    /\ restored = <<>>
    /\ stage = "none"
    /\ StreamIdle
    /\ CallIdle
    /\ AppIdle
    /\ body = <<>>
    /\ StoreIdle
    /\ CtxIdle

\* A history built from a conversation, before it is trimmed.
TrimInit ==
    /\ messages \in Transcripts(MAX_HISTORY_SIZE + MaxOver)
    /\ history = from_messages(messages)
    /\ restored = <<>>
    /\ stage = "built"
    /\ StreamIdle
    /\ CallIdle
    /\ AppIdle
    /\ body = <<>>
    /\ StoreIdle
    /\ CtxIdle

TrimNext == TrimToLimit

\* The applet starts: no history call has been made, no file written.
StoreInit ==
    /\ dir \in BOOLEAN
    /\ file = NoFile
    /\ call = NoCall
    /\ fault = "none"
    /\ lastWrite = NoWrite
    /\ messages = <<>>
    /\ history = ChatHistoryNew
    /\ restored = <<>>
    /\ stage = "store"
    /\ StreamIdle
    /\ CallIdle
    /\ AppIdle
    /\ body = <<>>
    /\ CtxIdle

\* The utilities are about to be run.
CtxInit ==
    /\ outputs \in OutputSets
    /\ context = ContextDefault
    /\ search = None
    /\ basePrompt \in BasePrompts
    /\ prompt = <<>>
    /\ messages = <<>>
    /\ history = ChatHistoryNew
    /\ restored = <<>>
    /\ stage = "context"
    /\ StreamIdle
    /\ CallIdle
    /\ AppIdle
    /\ body = <<>>
    /\ StoreIdle

CtxNext ==
    \/ Gather
    \/ GatherWithSearch
    \/ Format

StoreNext ==
    \/ SaveDirErr
    \/ SaveCreateErr
    \/ SaveWriteErr
    \/ SaveNoFlush
    \/ SaveOk
    \/ LoadMissing
    \/ LoadOpenErr
    \/ LoadReadErr
    \/ LoadParsed
    \/ ClearMissing
    \/ ClearErr
    \/ ClearOk

HistNext ==
    \/ FromMessages
    \/ ToMessages

Init ==
    /\ body \in {Encode(s) : s \in Scripts}
    /\ StreamIdle
    /\ CallIdle
    /\ AppIdle
    /\ HistIdle
    /\ StoreIdle
    /\ CtxIdle

BurstInit ==
    /\ body \in {Encode(s) : s \in Bursts}
    /\ StreamIdle
    /\ CallIdle
    /\ AppIdle
    /\ HistIdle
    /\ StoreIdle
    /\ CtxIdle

Next ==
    \/ ChatStream
    \/ ConnectErr
    \/ StatusErr
    \/ ConnectOk
    \/ NextChunk
    \/ NextErr
    \/ NextEnd
    \/ ForLine
    \/ SendOk
    \/ SendErr
    \/ PollEvent
    \/ PollEmpty
    \/ PollDisconnected
    \/ DropReceiver

Spec == Init /\ [][Next]_vars

SpecBurst == BurstInit /\ [][Next]_vars

SpecHistory == HistInit /\ [][HistNext]_vars

SpecTrim == TrimInit /\ [][TrimNext]_vars

SpecStore == StoreInit /\ [][StoreNext]_vars

\* A model is listed: format_size is about to be called with its size.
SizeInit ==
    /\ input \in SizeInputs
    /\ requests = <<>>
    /\ output = NoOutput
    /\ messages = <<>>
    /\ history = ChatHistoryNew
    /\ restored = <<>>
    /\ stage = "size"
    /\ StreamIdle
    /\ body = <<>>
    /\ StoreIdle
    /\ CtxIdle
    /\ AppIdle

SizeNext == FormatSize

\* chat or chat_stream is about to be called.
ChatInit ==
    /\ input \in ChatInputs
    /\ requests = <<>>
    /\ output = NoOutput
    /\ messages = <<>>
    /\ history = ChatHistoryNew
    /\ restored = <<>>
    /\ stage = "chat"
    /\ StreamIdle
    /\ body = <<>>
    /\ StoreIdle
    /\ CtxIdle
    /\ AppIdle

ChatNext ==
    \/ ChatSend
    \/ ChatReturn
    \/ ChatStreamSend

\* search is about to be called.
SearchInit ==
    /\ input \in SearchInputs
    /\ requests = <<>>
    /\ output = NoOutput
    /\ messages = <<>>
    /\ history = ChatHistoryNew
    /\ restored = <<>>
    /\ stage = "search"
    /\ StreamIdle
    /\ body = <<>>
    /\ StoreIdle
    /\ CtxIdle
    /\ AppIdle

SearchNext == WebSearch

\* AppModel::init: the conversation is the saved history, or the welcome
\* message when there is none.
SavedConversation == <<<<"user", "Hello">>, <<"assistant", "Hello">>>>

AppInit ==
    /\ \/ /\ dir \in BOOLEAN
          /\ file = NoFile
          /\ messages = <<<<"assistant", WELCOME>>>>
       \/ /\ dir = TRUE
          /\ file = FileOf(SaveText(SavedConversation))
          /\ messages = SavedConversation
    /\ call = NoCall
    /\ fault = "none"
    /\ lastWrite = NoWrite
    /\ history = ChatHistoryNew
    /\ restored = <<>>
    /\ stage = "app"
    /\ input_text = <<>>
    /\ waiting = FALSE
    /\ stream_rx = FALSE
    /\ pending = <<>>
    /\ target = 0
    /\ submits = 0
    /\ submitted = ""
    /\ lastMsg = NoMsg
    /\ StreamIdle
    /\ body = <<>>
    /\ CtxIdle
    /\ CallIdle

\* The messages of the user and of the tasks, and the steps of the task
\* that chat_stream has spawned.
AppNext ==
    \/ InputChanged
    \/ Submit
    \/ StartOllamaStream
    \/ StreamReady
    \/ PollStream
    \/ StreamChunk
    \/ StreamDone
    \/ StreamError
    \/ ClearChat
    \/ ConnectErr
    \/ StatusErr
    \/ ConnectOk
    \/ NextChunk
    \/ NextErr
    \/ NextEnd
    \/ ForLine
    \/ SendOk

SpecContext == CtxInit /\ [][CtxNext]_vars

SpecApp == AppInit /\ [][AppNext]_vars

\* The steps of the runtime: a future completes, a message is delivered.
Runtime ==
    \/ StartOllamaStream
    \/ StreamReady
    \/ PollStream
    \/ StreamChunk
    \/ StreamDone
    \/ StreamError

\* The steps of the task that chat_stream has spawned, the replies of the
\* server included.
Producer ==
    \/ ConnectErr
    \/ StatusErr
    \/ ConnectOk
    \/ NextChunk
    \/ NextErr
    \/ NextEnd
    \/ ForLine
    \/ SendOk

\* The runtime delivers every message and completes every future; the task
\* is scheduled and the response of the server arrives, goes on and ends or
\* fails.  The user is free to act or not.
AppFairness == WF_vars(Runtime) /\ WF_vars(Producer)

SpecAppFair == AppInit /\ [][AppNext]_vars /\ AppFairness

SpecSearch == SearchInit /\ [][SearchNext]_vars

SpecChat == ChatInit /\ [][ChatNext]_vars

SpecSize == SizeInit /\ [][SizeNext]_vars

(***************************************************************************)
(* What the specification says of each line, read off the line kinds and   *)
(* not off the parser: the text of each kind after decoding, and the       *)
(* events a sequence of lines must give.                                   *)
(***************************************************************************)
ContentUText == <<"{", "m", "uuml", "d", "}">>

IsPrefix(s, t) == Len(s) <= Len(t) /\ SubSeq(t, 1, Len(s)) = s

Last(s) == s[Len(s)]

IsTerminal(ev) == ev[1] \in {"Done", "Error"}

KindEvents(line) ==
    IF line = ContentA THEN <<Chunk(<<"a">>)>>
    ELSE IF line = ContentUText THEN <<Chunk(<<"uuml">>)>>
    ELSE IF line \in {EmptyContent, NoMessage} THEN <<>>
    ELSE IF line \in {DoneLine, DoneWithContent} THEN <<Done>>
    ELSE <<Error("Parse error")>>

RECURSIVE ExpectedEvents(_)
ExpectedEvents(ls) ==
    IF ls = <<>> THEN <<>>
    ELSE LET e == KindEvents(Head(ls)) IN
         IF e # <<>> /\ IsTerminal(e[1]) THEN e
         ELSE e \o ExpectedEvents(Tail(ls))

\* The events that come from lines: every event handed to tx.send, less the
\* terminal event of a return that no line causes.
LineEvents ==
    IF exit \in {"connect", "status", "transport", "eof"}
    THEN SubSeq(attempted, 1, Len(attempted) - 1)
    ELSE attempted

TerminalCount(evs) == Cardinality({i \in 1..Len(evs) : IsTerminal(evs[i])})

ListedPaths == {"connect", "status", "done", "parse", "transport", "eof"}

TerminalOf(path) ==
    IF path = "connect" THEN Error("Connection error")
    ELSE IF path = "status" THEN Error("Ollama error")
    ELSE IF path = "parse" THEN Error("Parse error")
    ELSE IF path = "transport" THEN Error("Stream error")
    ELSE Done

(***************************************************************************)
(* C1.  Every stream produces exactly one terminal event, Done or Error,   *)
(* on each of the task's paths (connection failure, non-2xx status, a      *)
(* done line, a malformed line, a transport error in mid-body, end of      *)
(* body): the terminal event is the last event the task hands to the       *)
(* channel, nothing follows it, and once the task has returned the         *)
(* channel is closed (a consumer that has drained it is told               *)
(* Disconnected, never Empty).  A task that has returned on any other      *)
(* path has had a Chunk send fail on a dropped receiver.                   *)
(***************************************************************************)
C1_OneTerminalEvent ==
    /\ \A i \in 1..(Len(attempted) - 1) : ~IsTerminal(attempted[i])
    /\ TerminalCount(attempted) <= 1
    /\ exit \in ListedPaths =>
          /\ pc \in {"send", "returned"}
          /\ TerminalCount(attempted) = 1
          /\ Last(attempted) = TerminalOf(exit)
    /\ pc = "returned" =>
          /\ sendEv = NoEv
          /\ exit \in ListedPaths \/ (exit = "cancel" /\ rx = "dropped" /\ failed = 1)
          /\ exit \in ListedPaths /\ failed = 0 => sent = attempted
          /\ rx = "held" /\ chan = <<>> => ENABLED PollDisconnected /\ ~ENABLED PollEmpty
    /\ \A i \in 1..Len(received) :
          IsTerminal(received[i]) => i = Len(received) /\ pc = "returned" /\ chan = <<>>

C1_Witness ==
    /\ pc = "returned"
    /\ exit = "done"
    /\ closedSeen
    /\ Len(received) = 3
    /\ Last(received) = Done

(***************************************************************************)
(* C2.  For a body of k valid content lines followed by a done:true line,  *)
(* however its bytes arrive in raw reads, a consumer that keeps receiving  *)
(* until the channel is closed has observed the k Chunk events in line     *)
(* order and then one Done.                                                *)
(***************************************************************************)
BodyLines == Lines(body)

IsContentBody ==
    /\ BodyLines # <<>>
    /\ Last(BodyLines) = DoneLine
    /\ \A i \in 1..(Len(BodyLines) - 1) : BodyLines[i] \in {ContentA, ContentU}

ChunkOfKind(kind) == IF kind = ContentA THEN Chunk(<<"a">>) ELSE Chunk(<<"uuml">>)

ChunksThenDone ==
    [i \in 1..Len(BodyLines) |->
        IF i < Len(BodyLines) THEN ChunkOfKind(BodyLines[i]) ELSE Done]

C2_ChunksThenDone ==
    /\ IsContentBody
    /\ closedSeen
    /\ exit \notin {"connect", "status", "transport"}
    => received = ChunksThenDone

\* The same statement holds of every run in which no raw read has cut a line
\* (no fragment of a line has failed to parse).
C2_UnlessLineCut ==
    /\ IsContentBody
    /\ closedSeen
    /\ exit \notin {"connect", "status", "transport", "parse"}
    => received = ChunksThenDone

(***************************************************************************)
(* C3.  When a line fails to parse the task hands exactly one Error to     *)
(* the channel and returns: the events of the lines before it have been    *)
(* delivered, and no later line, of the same raw read or of a later one,   *)
(* is parsed or gives an event.                                            *)
(***************************************************************************)
IsBadLine(line) == KindEvents(line) = <<Error("Parse error")>>

C3_MalformedLineAborts ==
    /\ \A i \in 1..Len(parsed) :
          IsBadLine(parsed[i]) => i = Len(parsed) /\ exit = "parse"
    /\ exit = "parse" =>
          /\ parsed # <<>>
          /\ IsBadLine(Last(parsed))
          /\ pc \in {"send", "returned"}
          /\ attempted =
                ExpectedEvents(SubSeq(parsed, 1, Len(parsed) - 1))
                   \o <<Error("Parse error")>>
          /\ SubSeq(sent, 1, Len(attempted) - 1)
                = SubSeq(attempted, 1, Len(attempted) - 1)
          /\ pc = "returned" /\ failed = 0 => sent = attempted
          /\ TerminalCount(attempted) = 1

C3_Witness ==
    /\ body = Encode(<<ContentA, Malformed, ContentU>>)
    /\ pc = "returned"
    /\ parsed = <<ContentA, Malformed>>
    /\ lines = <<ContentUText>>
    /\ closedSeen
    /\ received = <<Chunk(<<"a">>), Error("Parse error")>>

(***************************************************************************)
(* C4.  When the body ends and no line had done = true, the terminal       *)
(* event is Done, not Error, and it comes after the Chunk events of all    *)
(* the lines read.                                                         *)
(***************************************************************************)
C4_EndOfBodyIsDone ==
    exit = "eof" =>
        /\ pos = Len(body)
        /\ lines = <<>>
        /\ \A i \in 1..Len(parsed) : KindEvents(parsed[i]) # <<Done>>
        /\ attempted = ExpectedEvents(parsed) \o <<Done>>
        /\ \A i \in 1..Len(attempted) : attempted[i][1] # "Error"
        /\ pc = "returned" /\ failed = 0 => sent = attempted

C4_Witness ==
    /\ exit = "eof"
    /\ pc = "returned"
    /\ closedSeen
    /\ received = <<Chunk(<<"a">>), Chunk(<<"uuml">>), Done>>

(***************************************************************************)
(* C5.  Per parsed line: a line with done = true gives Done and ends the   *)
(* task, whatever its content and whatever follows it in the same raw      *)
(* read or in later reads; any other line gives Chunk(content) exactly     *)
(* when it has a message with non-empty content; empty lines and lines     *)
(* with no or empty content give no event.  No Chunk carries empty text.   *)
(***************************************************************************)
C5_PerLineEvents ==
    /\ LineEvents = ExpectedEvents(parsed)
    /\ \A i \in 1..Len(parsed) :
          KindEvents(parsed[i]) = <<Done>> => i = Len(parsed) /\ exit = "done"
    /\ \A i \in 1..Len(parsed) : parsed[i] # <<>>
    /\ \A i \in 1..Len(attempted) :
          attempted[i][1] = "Chunk" => attempted[i][2] # <<>>
    /\ \A i \in 1..Len(received) :
          received[i][1] = "Chunk" => received[i][2] # <<>>

C5_Witness ==
    /\ body = Encode(<<EmptyContent, DoneWithContent, ContentA>>)
    /\ pc = "returned"
    /\ exit = "done"
    /\ parsed = <<EmptyContent, DoneWithContent>>
    /\ lines = <<ContentA>>
    /\ attempted = <<Done>>

(***************************************************************************)
(* C6.  The consumer receives the events of a stream in the order in       *)
(* which the task parsed their lines: what it has received is a prefix of  *)
(* what was sent, what was sent is the events of the parsed lines in line  *)
(* order, and while the receiver is held nothing is lost or duplicated     *)
(* (received followed by the buffered events is exactly what was sent).    *)
(***************************************************************************)
C6_FifoOrder ==
    /\ IsPrefix(received, sent)
    /\ IsPrefix(sent, attempted)
    /\ rx = "held" => received \o chan = sent
    /\ LET n == Min(Len(received), Len(ExpectedEvents(parsed)))
       IN  SubSeq(received, 1, n) = SubSeq(ExpectedEvents(parsed), 1, n)

C6_Witness ==
    /\ rx = "held"
    /\ received = <<Chunk(<<"a">>), Chunk(<<"uuml">>)>>
    /\ chan = <<Chunk(<<"a">>)>>

(***************************************************************************)
(* C7.  As claimed: the channel never holds more than 32 events, and when  *)
(* 32 events are pending and the consumer does not receive, the task is    *)
(* blocked in send and parses no further line.                             *)
(***************************************************************************)
ChannelFull == rx = "held" /\ Len(chan) = Capacity

Blocked == pc = "send" /\ ChannelFull

C7_FullChannelStopsParsing ==
    /\ [](Len(chan) <= Capacity)
    /\ [][ChannelFull /\ received' = received => parsed' = parsed]_vars

(***************************************************************************)
(* C7, amended.  The channel never holds more than 32 events.  With 32     *)
(* events pending the task goes on reading and parsing until it reaches    *)
(* its next send; it is blocked in that send, and parses no further line   *)
(* and changes nothing, for as long as the consumer neither receives nor   *)
(* drops the receiver; the send completes when the consumer has received   *)
(* one event, and no event is dropped or overwritten: what the consumer    *)
(* has received, followed by the buffered events, is what was sent.        *)
(***************************************************************************)
C7_BlocksAtNextSend ==
    /\ [](Len(chan) <= Capacity)
    /\ [](rx = "held" => received \o chan = sent)
    /\ [](Blocked => ~ENABLED SendOk /\ ~ENABLED SendErr /\ ENABLED PollEvent)
    /\ [](pc = "send" /\ rx = "held" /\ Len(chan) < Capacity => ENABLED SendOk)
    /\ [][Blocked /\ received' = received /\ rx' = rx
            => /\ pc' = pc /\ sendEv' = sendEv /\ parsed' = parsed /\ pos' = pos
               /\ chan' = chan /\ sent' = sent /\ attempted' = attempted]_vars
    /\ [][Blocked /\ received' # received
            => chan' = Tail(chan) /\ received' = Append(received, Head(chan))
               /\ pc' = "send" /\ sendEv' = sendEv]_vars

C7_Witness ==
    /\ Blocked
    /\ Len(sent) = Capacity + 1
    /\ Len(received) = 1
    /\ Len(attempted) = Capacity + 2

(***************************************************************************)
(* C8.  After the consumer has dropped the receiver the task's next send   *)
(* fails and the task returns there: at most one send ever fails, nothing  *)
(* is put into the channel after the drop, and no send is attempted after  *)
(* the failed one.  A dropped receiver is the only cancellation: until     *)
(* that send the task goes on reading the body and parsing lines, and a    *)
(* task that returns without a terminal event has had a send fail.         *)
(***************************************************************************)
C8_DropCancelsAtNextSend ==
    /\ failed <= 1
    /\ failed = 1 => pc = "returned" /\ rx = "dropped" /\ sendEv = NoEv
    /\ rx = "dropped" => chan = <<>>
    /\ Len(attempted) = Len(sent) + failed + (IF pc = "send" THEN 1 ELSE 0)
    /\ exit = "cancel" <=> (failed = 1 /\ Last(attempted)[1] = "Chunk")
    /\ pc = "send" /\ rx = "dropped" => ENABLED SendErr /\ ~ENABLED SendOk
    /\ rx = "dropped" /\ pc = "next" /\ pos < Len(body) => ENABLED NextChunk
    /\ rx = "dropped" /\ pc = "next" /\ pos = Len(body) => ENABLED NextEnd
    /\ rx = "dropped" /\ pc = "lines" => ENABLED ForLine

C8_Witness ==
    /\ body = Encode(<<NoMessage, ContentA, ContentU>>)
    /\ received = <<>>
    /\ sent = <<>>
    /\ parsed = <<NoMessage, ContentA>>
    /\ lines = <<ContentUText>>
    /\ pc = "returned"
    /\ exit = "cancel"
    /\ failed = 1

(***************************************************************************)
(* C9.  Each raw read is split into lines on its own and nothing is kept   *)
(* between reads: the lines the loop takes are the lines of the current    *)
(* raw read alone, so when a read boundary falls inside a line of the      *)
(* body, the part of the line in each read is parsed as a line of its      *)
(* own, and the line is never parsed whole.                                *)
(***************************************************************************)
IsSuffix(s, t) == Len(s) <= Len(t) /\ SubSeq(t, Len(t) - Len(s) + 1, Len(t)) = s

OwnLines == Lines(FromUtf8Lossy(curRead))

NonEmptyLine(line) == line # <<>>

\* The non-empty lines of the current raw read that the loop has taken.
TakenLines ==
    SelectSeq(SubSeq(OwnLines, 1, Len(OwnLines) - Len(lines)), NonEmptyLine)

ReadStart == pos - Len(curRead)

\* The boundary after byte p lies strictly inside a line of the body.
Cut(p) == p > 0 /\ p < Len(body) /\ body[p] # LF /\ body[p + 1] # LF

CutBefore == curRead # <<>> /\ Cut(ReadStart)

CutAfter == curRead # <<>> /\ Cut(pos)

\* The decoded text of the whole line of the body that holds byte p.
LineEnd(p) ==
    IF \E i \in p..Len(body) : body[i] = LF
    THEN CHOOSE i \in p..Len(body) : body[i] = LF /\ \A j \in p..(i - 1) : body[j] # LF
    ELSE Len(body) + 1

WholeLineText(p) == FromUtf8Lossy(SubSeq(body, LineStart(p) + 1, LineEnd(p) - 1))

C10_RoundTrip ==
    stage = "roundtrip" =>
        /\ restored = messages
        /\ Len(restored) = Len(messages)
        /\ \A i \in 1..Len(messages) :
              restored[i][1] = messages[i][1] /\ restored[i][2] = messages[i][2]
        /\ history.version = CURRENT_VERSION
        /\ Len(history.messages) = Len(messages)

C10_Witness ==
    /\ stage = "roundtrip"
    /\ Len(messages) = 2
    /\ messages[1] = messages[2]
    /\ messages[1] = <<"assistant", "Hello">>
    /\ restored = messages

(***************************************************************************)
(* The history store.                                                      *)
(***************************************************************************)
\* The last Min(N, 100) of N messages, position by position.
KeptMessages(msgs) ==
    LET n == Len(msgs)
        kept == Min(n, 100)
    IN  [i \in 1..kept |-> msgs[n - kept + i]]

\* C11: trim_to_limit on a history of N messages leaves exactly the last
\* min(N, 100) of them in their order, whatever their roles and contents;
\* it changes nothing of a history of at most 100 messages, and a second
\* trim leaves what the first one left.
C11_TrimKeepsNewest ==
    stage \in {"trimmed", "trimmed twice"} =>
        /\ to_messages(history) = KeptMessages(messages)
        /\ history.version = from_messages(messages).version
        /\ Len(messages) <= 100 => history = from_messages(messages)

C11_Witness ==
    /\ stage = "trimmed twice"
    /\ Len(messages) = 102
    /\ Len(history.messages) = 100
    /\ history.messages[1].content = "3"
    /\ history.messages[1].role # history.messages[2].role

\* The messages a text of the history file holds, whole or cut off.
MessagesIn(text) == {i \in 1..Len(text) : text[i] = P_EndMessage}

\* C12: after any sequence of save_history and clear_history calls, with
\* conversations of any length, the history file holds at most 100
\* messages, and a history that load_history has returned holds at most 100.
C12_AtMost100Persisted ==
    /\ file.exists => Cardinality(MessagesIn(file.text)) <= 100
    /\ file.exists /\ FromReader(file.text).ok =>
          Len(FromReader(file.text).value.messages) <= 100
    /\ call.op = "load" => Len(history.messages) <= 100

C12_Witness ==
    /\ call.op = "load"
    /\ lastWrite = [op |-> "save", ok |-> TRUE, fault |-> "none"]
    /\ Len(messages) = 102
    /\ Len(history.messages) = 100
    /\ Cardinality(MessagesIn(file.text)) = 100

\* An empty history at the current version.
EmptyHistory == [version |-> 1, messages |-> <<>>]

\* The file does not hold a history.
Unreadable == ~file.exists \/ ~FromReader(file.text).ok

\* C13: load_history returns no error: when the file is missing, cannot be
\* opened or read, or holds no valid history JSON, it returns an empty
\* history at the current version; and a load_history call leaves the
\* directory and the file as they were.
C13_LoadNeverFails ==
    /\ [](call.op = "load" =>
            /\ call.ok
            /\ (Unreadable \/ fault \in {"open", "read"}) => history = EmptyHistory)
    /\ [][call'.op = "load" => file' = file /\ dir' = dir]_vars

C13_Witness ==
    /\ call.op = "load"
    /\ fault = "none"
    /\ file.exists
    /\ Len(file.text) > 5
    /\ ~FromReader(file.text).ok
    /\ history = EmptyHistory

\* The history from_messages and trim_to_limit make of the last 100 messages.
ExpectedHistory(msgs) ==
    [version |-> 1,
     messages |-> [i \in 1..Len(KeptMessages(msgs)) |->
                      [role |-> KeptMessages(msgs)[i][1],
                       content |-> KeptMessages(msgs)[i][2]]]]

\* A load_history that could open and read the file, after a save_history
\* that returned Ok(()) and no clear_history since.
LoadedAfterSave ==
    /\ call.op = "load"
    /\ fault = "none"
    /\ lastWrite.op = "save"
    /\ lastWrite.ok

\* C14: after a save_history(messages) that returned Ok(()), load_history
\* returns a history at the current version whose messages are the last
\* min(n, 100) of messages, in order, and nothing of an earlier save; the
\* directory exists after the save.
C14_LoadReturnsSaved ==
    /\ LoadedAfterSave => history = ExpectedHistory(messages)
    /\ lastWrite.op = "save" /\ lastWrite.ok => dir

\* What holds of the code: the same, for a save_history whose last flush,
\* in the drop of the BufWriter, did not fail.
C14_UnlessFlushFails ==
    /\ LoadedAfterSave /\ lastWrite.fault = "none" => history = ExpectedHistory(messages)
    /\ lastWrite.op = "save" /\ lastWrite.ok => dir

\* C15: save_history returns an error for every file-system failure
\* (create_dir_all, File::create, writing the JSON) and returns Ok(()) only
\* when the history is in the file; load_history never returns an error.
C15_SaveReportsFailures ==
    /\ call.op = "save" /\ fault # "none" => ~call.ok
    /\ call.op = "save" /\ call.ok =>
          file.exists /\ FromReader(file.text) = GoodJson(ExpectedHistory(messages))
    /\ call.op = "load" => call.ok

\* What holds of the code: the failures of create_dir_all, of File::create
\* and of the flushes inside to_writer_pretty are returned as errors; only
\* the flush in the drop of the BufWriter is not.
C15_UnlessFlushFails ==
    /\ call.op = "save" /\ fault \notin {"none", "flush"} => ~call.ok
    /\ call.op = "save" /\ call.ok /\ fault = "none" =>
          file.exists /\ FromReader(file.text) = GoodJson(ExpectedHistory(messages))
    /\ call.op = "load" => call.ok

\* C16: clear_history removes the file when there is one and returns Ok(())
\* when there is none, changing nothing; after a clear_history that
\* returned Ok(()), load_history returns an empty history until the next
\* save_history; a second clear_history leaves what the first one left.
C16_ClearRemovesFile ==
    /\ [](/\ call.op = "clear" /\ call.ok => ~file.exists
          /\ call.op = "load" /\ lastWrite.op = "clear" /\ lastWrite.ok =>
                history = EmptyHistory)
    /\ [][call'.op = "clear" =>
            /\ ~file.exists => call'.ok /\ file' = file
            /\ ~call'.ok => file' = file
            /\ lastWrite.op = "clear" /\ lastWrite.ok => call'.ok /\ file' = file
            /\ dir' = dir]_vars

C16_Witness ==
    /\ call = [op |-> "clear", ok |-> TRUE]
    /\ ~file.exists
    /\ dir
    /\ Len(history.messages) = 100
    /\ Len(messages) > 0

(***************************************************************************)
(* The context.  The text captured from a utility is what it has printed,  *)
(* without the whitespace around it, when it has run, exited with success  *)
(* and printed UTF-8.                                                      *)
(***************************************************************************)
Gathered == stage \in {"gathered", "formatted"}

Succeeded(o) == o.spawned /\ o.success /\ o.utf8

\* The utility has captured a text that is not empty.
Captured(o) == Succeeded(o) /\ Trim(o.out) # <<>>

Present(opt) == opt # <<>>

\* C17: in every Context built by gather, a present clipboard or selection
\* has at most 2000 bytes and present recent errors have at most 1500; a
\* captured text above the ceiling makes its field absent; no present
\* field is the empty string.
C17_FieldsWithinCeilings ==
    Gathered =>
        /\ \A f \in {"clipboard", "selection"} :
              Present(context[f]) => Length(context[f][1]) <= 2000
        /\ Present(context.recent_errors) => Length(context.recent_errors[1]) <= 1500
        /\ \A f \in {"clipboard", "selection"} :
              Captured(outputs[f]) /\ Length(Trim(outputs[f].out)) > 2000
                  => ~Present(context[f])
        /\ Captured(outputs.journalctl) /\ Length(Trim(outputs.journalctl.out)) > 1500
              => ~Present(context.recent_errors)
        /\ \A f \in DOMAIN context :
              Present(context[f]) => context[f][1] # <<>> /\ Length(context[f][1]) > 0

C17_Witness ==
    /\ stage = "gathered"
    /\ Present(context.clipboard)
    /\ Length(context.clipboard[1]) = 1999
    /\ Length(outputs.clipboard.out) = 2002
    /\ Length(outputs.selection.out) = 2001
    /\ ~Present(context.selection)
    /\ Length(outputs.journalctl.out) = 1501
    /\ ~Present(context.recent_errors)
    /\ Present(context.system_info)

\* The primary selection captured is the text of the clipboard captured.
SameCapture ==
    /\ Captured(outputs.clipboard)
    /\ Captured(outputs.selection)
    /\ Trim(outputs.selection.out) = Trim(outputs.clipboard.out)

\* The prompt has the section of a label.
HasSection(label) == \E i \in 1..Len(prompt) : prompt[i] = label[1]

SectionOrder ==
    <<"Clipboard", "Selected text", "System", "Recent errors", "Web Search Results">>

SourceOf(name) ==
    CASE name = "Clipboard" -> context.clipboard
      [] name = "Selected text" -> context.selection
      [] name = "System" -> context.system_info
      [] name = "Recent errors" -> context.recent_errors
      [] name = "Web Search Results" -> search

LabelOf(name) ==
    CASE name = "Clipboard" -> L_Clipboard
      [] name = "Selected text" -> L_Selected
      [] name = "System" -> L_System
      [] name = "Recent errors" -> L_Errors
      [] name = "Web Search Results" -> L_Search

Fenced(name) == name \in {"Clipboard", "Selected text", "Recent errors"}

SectionText(name) ==
    IF name = "Web Search Results" THEN Lit("\n\n") \o SourceOf(name)[1]
    ELSE LabelOf(name) \o SourceOf(name)[1] \o (IF Fenced(name) THEN L_Fence ELSE <<>>)

RECURSIVE SectionsFrom(_)
SectionsFrom(i) ==
    IF i > Len(SectionOrder) THEN <<>>
    ELSE (IF Present(SourceOf(SectionOrder[i])) THEN SectionText(SectionOrder[i]) ELSE <<>>)
             \o SectionsFrom(i + 1)

\* Where the label of a section stands in the prompt.
LabelAt(name) == {i \in 1..Len(prompt) : prompt[i] = LabelOf(name)[1]}

FieldOf(u) ==
    CASE u = "clipboard" -> "clipboard"
      [] u = "selection" -> "selection"
      [] u \in {"lsb_release", "uname", "free"} -> "system_info"
      [] u = "journalctl" -> "recent_errors"

\* The ways a utility can fail: it cannot be run, exits with an error,
\* prints bytes that are no UTF-8, prints nothing, or prints too much.
FailuresOf(u) ==
    {SpawnErr, ExitNonZero(A(3)), NonUtf8, Ok(<<>>)}
        \cup (IF u \in {"clipboard", "selection"} THEN {Ok(A(2001))} ELSE {})
        \cup (IF u = "journalctl" THEN {Ok(A(1501))} ELSE {})

\* The Context gather builds when utility u fails in the way f.
WithFailure(u, f) == gather([outputs EXCEPT ![u] = f])

\* C20, as claimed: gather returns a Context whatever the utilities do, and
\* the failure of a utility makes its field absent and leaves the other
\* fields as they are without the failure.  Of the three utilities of the
\* system field the claim is read for the one that decides its presence,
\* lsb_release.
C20_FailuresAreIsolated ==
    /\ stage = "context" => ENABLED Gather
    /\ Gathered =>
          \A u \in Utilities : \A f \in FailuresOf(u) :
             /\ u \notin {"uname", "free"} => ~Present(WithFailure(u, f)[FieldOf(u)])
             /\ \A g \in DOMAIN context \ {FieldOf(u)} :
                   WithFailure(u, f)[g] = context[g]

\* The selection is a copy of the clipboard of the Context.
SuppressedCopy ==
    /\ Present(context.clipboard)
    /\ Captured(outputs.selection)
    /\ Trim(outputs.selection.out) = context.clipboard[1]

\* The part of a system text after a label is empty.
EmptyPart(t, label) ==
    \E i \in 1..Len(t) :
        /\ t[i] = label[1]
        /\ i = Len(t) \/ t[i + 1] = Lit(", Memory: ")[1]

\* C20, amended: gather returns a Context whatever the utilities do.  A
\* failure of the clipboard, selection, lsb_release or journalctl utility
\* makes its field absent; a failure of uname or free leaves the system
\* field present when it was, with an empty kernel or memory part.  The
\* other fields are as they are without the failure, except that a failure
\* of the clipboard utility makes present a selection that was suppressed
\* as a copy of the clipboard.
C20_FailuresIsolatedButCopy ==
    /\ stage = "context" => ENABLED Gather
    /\ Gathered =>
          \A u \in Utilities : \A f \in FailuresOf(u) :
             LET with == WithFailure(u, f)
             IN  /\ DOMAIN with = DOMAIN context
                 /\ u \notin {"uname", "free"} => ~Present(with[FieldOf(u)])
                 /\ u \in {"uname", "free"} =>
                       /\ Present(with.system_info) <=> Present(context.system_info)
                       /\ Present(with.system_info) =>
                             EmptyPart(with.system_info[1],
                                       IF u = "uname" THEN Lit(", Kernel: ")
                                       ELSE Lit(", Memory: "))
                 /\ \A g \in DOMAIN context \ {FieldOf(u)} :
                       IF u = "clipboard" /\ g = "selection" /\ SuppressedCopy
                       THEN with.selection = context.clipboard
                       ELSE with[g] = context[g]

C20_Witness ==
    /\ stage = "gathered"
    /\ SuppressedCopy
    /\ ~Present(context.selection)
    /\ WithFailure("clipboard", SpawnErr).selection = context.clipboard
    /\ outputs.uname = NonUtf8
    /\ Present(context.system_info)
    /\ outputs.journalctl = SpawnErr
    /\ ~Present(context.recent_errors)

(***************************************************************************)
(* C21: format_size renders a byte count of at least 1024^3 as gibibytes   *)
(* with one decimal and " GB", the decimal value being the nearest tenth   *)
(* of a GiB, and a smaller count as the nearest whole number of mebibytes  *)
(* and " MB"; format_size(1024^3) is "1.0 GB" and format_size(1024^3 - 1)  *)
(* is "1024 MB".                                                           *)
(***************************************************************************)
Formatted == stage = "size" /\ output # NoOutput

\* t tenths of a GiB are within half a tenth of the byte count.
NearestTenth(bytes, t) ==
    LET d == t - 10 * bytes.gib
        x == Twentieths(bytes.rest)
    IN  /\ d \in 0..10
        /\ x.whole >= 2 * d - 1
        /\ x.whole < 2 * d + 1 \/ (x.whole = 2 * d + 1 /\ ~x.more)

\* n MiB are within half a MiB of a byte count below one GiB.
NearestMiB(bytes, n) ==
    /\ n * MB - bytes.rest <= MB \div 2
    /\ bytes.rest - n * MB <= MB \div 2

C21_FormatSize ==
    Formatted =>
        /\ input.gib >= 1 =>
              \E t \in (10 * input.gib)..(10 * input.gib + 10) :
                 /\ output = Return(ToString(t \div 10) \o "." \o ToString(t % 10) \o " GB")
                 /\ NearestTenth(input, t)
        /\ input.gib = 0 =>
              \E n \in 0..1024 :
                 /\ output = Return(ToString(n) \o " MB")
                 /\ NearestMiB(input, n)
        /\ input = Size(1, 0) => output = Return("1.0 GB")
        /\ input = Size(0, GB - 1) => output = Return("1024 MB")

C21_Witness ==
    /\ Formatted
    /\ input = Size(0, GB - 1)
    /\ output = Return("1024 MB")

(***************************************************************************)
(* C22: a call of chat issues exactly one HTTP request and returns the     *)
(* content of the response on success, one "Connection error" when the     *)
(* transport fails, one "Ollama error" with the status when the status is  *)
(* not 2xx, whatever the body, and one "Parse error" when the body of a    *)
(* 2xx response is no chat response.                                       *)
(***************************************************************************)
ChatReturned == stage = "chat" /\ input.fn = "chat" /\ output # NoOutput

C22_ChatOneRequest ==
    ChatReturned =>
        LET reply == output[2].reply
            result == output[2].result
        IN  /\ Len(requests) = 1
            /\ ~reply.arrived =>
                  result = ChatErr("Connection error: " \o reply.error)
            /\ reply.arrived /\ reply.status \notin 200..299 =>
                  result = ChatErr("Ollama error: " \o StatusText(reply.status))
            /\ reply.arrived /\ reply.status \in 200..299 =>
                  /\ reply.body = ValidBody => result = ChatOk("Hello")
                  /\ reply.body = ValidBodyMore => result = ChatOk("")
                  /\ reply.body \in {NoMessageBody, CutBody, NoBody} =>
                        /\ ~result.ok
                        /\ result.text \in {"Parse error: " \o e :
                                               e \in {"EOF while parsing",
                                                      "missing field message"}}

C22_Witness ==
    /\ ChatReturned
    /\ output[2].reply = Response(404, ValidBody)
    /\ output[2].result = ChatErr("Ollama error: 404 Not Found")

(***************************************************************************)
(* C23: the request of chat and of chat_stream carries the model of the    *)
(* client and the system message built from system_prompt followed by the  *)
(* history messages, in their order, roles and contents unchanged; stream  *)
(* is false for chat and true for chat_stream.                             *)
(***************************************************************************)
C23_RequestPayload ==
    stage = "chat" =>
        \A k \in 1..Len(requests) :
            LET r == requests[k] IN
            /\ r.model = input.model
            /\ Len(r.messages) = Len(input.messages) + 1
            /\ r.messages[1] = [role |-> "system", content |-> input.system_prompt]
            /\ \A i \in 1..Len(input.messages) :
                  /\ r.messages[i + 1].role = input.messages[i][1]
                  /\ r.messages[i + 1].content = input.messages[i][2]
            /\ r.stream = (input.fn = "chat_stream")

C23_Witness ==
    /\ stage = "chat"
    /\ input.fn = "chat_stream"
    /\ input.messages = <<<<"user", "Hello">>, <<"assistant", "">>>>
    /\ Len(requests) = 1
    /\ requests[1].stream

(***************************************************************************)
(* C24: search returns, for a response with an abstract, the abstract as   *)
(* summary with at most the first 3 related-topic texts as related items;  *)
(* for a response without abstract but with a topic text, the first at     *)
(* most 5 texts joined as summary, the source "DuckDuckGo", the search URL *)
(* of the query and no related items; otherwise, and when the request or   *)
(* its parsing fails, nothing.                                             *)
(***************************************************************************)
Searched == stage = "search" /\ output # NoOutput

\* The places of the related topics that have a text, in order.
RECURSIVE TextPlaces(_, _)
TextPlaces(topics, i) ==
    IF i > Len(topics) THEN <<>>
    ELSE (IF topics[i] # None THEN <<i>> ELSE <<>>) \o TextPlaces(topics, i + 1)

C24_SearchResult ==
    Searched =>
        LET ddg == input.ddg
            places == TextPlaces(ddg.related_topics, 1)
            found == output[2]
        IN  /\ ~ddg.ok => found = None
            /\ ddg.ok /\ ddg.abstract_text # "" =>
                  /\ found # None
                  /\ found[1].summary = ddg.abstract_text
                  /\ Len(found[1].related) = Min(3, Len(places))
                  /\ \A k \in 1..Len(found[1].related) :
                        found[1].related[k] = ddg.related_topics[places[k]][1]
            /\ ddg.ok /\ ddg.abstract_text = "" /\ places # <<>> =>
                  /\ found # None
                  /\ found[1].summary =
                        Join([k \in 1..Min(5, Len(places)) |->
                                 ddg.related_topics[places[k]][1]], "\n\n")
                  /\ found[1].source = "DuckDuckGo"
                  /\ found[1].url = (IF input.query = <<"r", "u", "s", "t">>
                                      THEN "https://duckduckgo.com/?q=rust"
                                      ELSE "https://duckduckgo.com/?q=a%20b%267%3F")
                  /\ found[1].related = <<>>
            /\ ddg.ok /\ ddg.abstract_text = "" /\ places = <<>> => found = None

C24_Witness ==
    /\ Searched
    /\ input.ddg.abstract_text = ""
    /\ Len(input.ddg.related_topics) = 6
    /\ \A i \in 1..6 : input.ddg.related_topics[i] # None
    /\ output[2] # None
    /\ output[2][1].summary =
          "topic 1\n\ntopic 2\n\ntopic 3\n\ntopic 4\n\ntopic 5"

(***************************************************************************)
(* C27, as claimed: a field is dropped only on utility failure or size     *)
(* overflow: a captured, non-empty clipboard or selection text of at most  *)
(* 2000 bytes (the selection differing from the clipboard) is present in   *)
(* the Context, and so is an error-log text of at most 1500 bytes, texts   *)
(* of exactly 2000 and 1500 bytes included.  The code keeps a text only    *)
(* when it is shorter than the limit, so this does not hold.               *)
(***************************************************************************)
C27_DroppedOnlyOnFailureOrOverflow ==
    Gathered =>
        /\ Captured(outputs.clipboard) /\ Length(Trim(outputs.clipboard.out)) <= 2000
              => Present(context.clipboard)
        /\ Captured(outputs.selection) /\ Length(Trim(outputs.selection.out)) <= 2000
              /\ ~SameCapture
              => Present(context.selection)
        /\ Captured(outputs.journalctl) /\ Length(Trim(outputs.journalctl.out)) <= 1500
              => Present(context.recent_errors)

\* Below the limits the claim holds: a captured, non-empty text shorter
\* than its limit is present.
C27_KeptBelowLimit ==
    Gathered =>
        /\ Captured(outputs.clipboard) /\ Length(Trim(outputs.clipboard.out)) < 2000
              => Present(context.clipboard)
        /\ Captured(outputs.selection) /\ Length(Trim(outputs.selection.out)) < 2000
              /\ ~SameCapture
              => Present(context.selection)
        /\ Captured(outputs.journalctl) /\ Length(Trim(outputs.journalctl.out)) < 1500
              => Present(context.recent_errors)

(***************************************************************************)
(* The application.                                                        *)
(***************************************************************************)
InApp == stage = "app"

LastMessage == messages[Len(messages)]

\* The texts of the Chunk events among the events, one after the other.
RECURSIVE ChunkTexts(_)
ChunkTexts(evs) ==
    IF evs = <<>> THEN ""
    ELSE (IF evs[1][1] = "Chunk" THEN ContentString(evs[1][2]) ELSE "")
         \o ChunkTexts(Tail(evs))

(***************************************************************************)
(* C25: whenever update has handled a StreamError, whatever the state of   *)
(* the conversation was, the conversation ends with an assistant message   *)
(* whose text is "Error: " and the error message, waiting is false and the *)
(* receiver is released; and the receiver is never released with an Error  *)
(* event of the task left unreceived.                                      *)
(***************************************************************************)
C25_ErrorEndsConversation ==
    InApp =>
        /\ lastMsg[1] = "StreamError" =>
              /\ messages # <<>>
              /\ LastMessage = <<"assistant", "Error: " \o lastMsg[2]>>
              /\ ~waiting
              /\ ~stream_rx
              /\ rx = "dropped"
        /\ rx = "dropped" =>
              \A k \in 1..Len(sent) :
                 sent[k][1] = "Error" => \E j \in 1..Len(received) : received[j] = sent[k]

C25_Witness ==
    /\ InApp
    /\ lastMsg = Msg("StreamError", "Stream error")
    /\ Len(messages) = 2
    /\ messages[1] = <<"assistant", CLEARED \o "a">>
    /\ messages[2] = <<"assistant", "Error: Stream error">>

(***************************************************************************)
(* C26, as claimed: after a StreamDone has been handled (and the save has  *)
(* met no failure), the stored history is the last 100 messages of the     *)
(* conversation, and these include the submitted user message followed by  *)
(* the assistant message that holds the Chunk texts of the stream, in      *)
(* order.  A ClearChat handled while the stream is in flight removes the   *)
(* user message and the texts appended so far, so this does not hold.      *)
(***************************************************************************)
DoneSaved ==
    /\ InApp
    /\ lastMsg = Msg("StreamDone", "")
    /\ lastWrite = [op |-> "save", ok |-> TRUE, fault |-> "none"]

StoredIsConversation ==
    /\ file.exists
    /\ FromReader(file.text).ok
    /\ to_messages(FromReader(file.text).value) = KeptMessages(messages)

C26_DonePersistsTranscript ==
    DoneSaved =>
        /\ StoredIsConversation
        /\ \E i \in 1..(Len(messages) - 1) :
              /\ messages[i] = <<"user", submitted>>
              /\ messages[i + 1] = <<"assistant", ChunkTexts(received)>>

\* When no ClearChat has been handled since the Submit, the claim holds.
C26_UnlessCleared ==
    DoneSaved =>
        /\ StoredIsConversation
        /\ (target >= 2 /\ messages[target - 1] = <<"user", submitted>>) =>
              /\ target = Len(messages)
              /\ messages[target] = <<"assistant", ChunkTexts(received)>>

(***************************************************************************)
(* C28, as claimed: under every interleaving of the messages, the text of  *)
(* a Chunk event is appended only to the assistant message that            *)
(* StreamReady has pushed for that stream.  After a ClearChat that message *)
(* is gone and the text is appended to the message ClearChat has inserted, *)
(* so this does not hold.                                                  *)
(***************************************************************************)
\* The places of the conversation whose message a step changes.
Changed ==
    {i \in 1..Len(messages) : i > Len(messages') \/ messages'[i] # messages[i]}
        \cup {i \in 1..Len(messages') : i > Len(messages)}

C28_ChunkOnlyToStreamMessage ==
    [][InApp /\ lastMsg'[1] = "StreamChunk" => \A i \in Changed : i = target]_vars

\* As long as no ClearChat has been handled since StreamReady, the text
\* goes to the message StreamReady has pushed.
C28_UnlessCleared ==
    [][InApp /\ lastMsg'[1] = "StreamChunk" /\ target # 0
          => \A i \in Changed : i = target]_vars

(***************************************************************************)
(* C29: the application has at most one streaming chat in flight: a held   *)
(* stream receiver implies waiting, a task that has not returned implies   *)
(* waiting, and no chat is started while the task of another runs; and a   *)
(* Submit handled while waiting is true or with a blank input appends no   *)
(* message, keeps the input text and starts no stream.                     *)
(***************************************************************************)
Starts(msgs) == Cardinality({i \in 1..Len(msgs) : msgs[i][1] = "start_ollama_stream"})

OneChatInFlight ==
    InApp =>
        /\ stream_rx => waiting
        /\ rx = "held" => waiting
        /\ pc \notin {"idle", "returned"} => waiting
        /\ pending # <<>> => waiting
        /\ Len(pending) <= 1
        /\ Starts(pending) = 1 => pc \in {"idle", "returned"} /\ rx # "held"

C29_OneChatInFlight ==
    /\ []OneChatInFlight
    /\ [][InApp /\ lastMsg'[1] = "Submit" /\ (waiting \/ Trim(input_text) = <<>>)
             => /\ messages' = messages
                /\ input_text' = input_text
                /\ waiting' = waiting
                /\ submits' = submits
                /\ Starts(pending') <= Starts(pending)]_vars

C29_Witness ==
    /\ InApp
    /\ lastMsg[1] = "Submit"
    /\ waiting
    /\ stream_rx
    /\ Trim(input_text) # <<>>
    /\ submits = 1
    /\ Len(messages) = 3

(***************************************************************************)
(* C30: every accepted Submit is eventually followed by waiting = false    *)
(* and a released stream receiver, when the messages are delivered, the    *)
(* task is scheduled and the response of the server ends or fails.         *)
(***************************************************************************)
C30_WaitingEnds ==
    (stage = "app" /\ waiting) ~> (~waiting /\ ~stream_rx /\ rx # "held")

C30_Witness ==
    /\ stage = "app"
    /\ submits = 2
    /\ ~waiting
    /\ ~stream_rx
    /\ rx = "dropped"
    /\ lastMsg[1] = "StreamError"

(***************************************************************************)
(* C31: a save_history that fails leaves the persisted history as it was.  *)
(***************************************************************************)

\* What load_history returns of a directory entry when it can open and read
\* it: the history the file states, and an empty one when the file is
\* missing or its text is no history.
load_history(f) ==
    IF f.exists /\ FromReader(f.text).ok THEN FromReader(f.text).value
    ELSE ChatHistoryNew

\* The step is a save_history that has met a failure at one of its steps.
SaveFailed == call'.op = "save" /\ fault' # "none"

\* The step is a save_history that has returned an error.
SaveReturnedErr == call'.op = "save" /\ ~call'.ok

\* C31: a save_history that fails at any of its steps (create_dir_all,
\* File::create, writing the JSON) leaves the persisted history unchanged:
\* load_history returns after it what it returned before it.
C31_FailedSaveKeepsHistory ==
    [][SaveFailed => load_history(file') = load_history(file)]_vars

\* The same for the failures save_history returns as errors only: it does
\* not hold either, the text being cut off by a flush inside
\* to_writer_pretty.
C31_ReportedFailureKeepsHistory ==
    [][SaveReturnedErr => load_history(file') = load_history(file)]_vars

\* What holds of the code: a save_history that fails before the file is
\* created (create_dir_all, File::create) leaves the file as it was, and
\* one that fails while the JSON is written leaves a file that states no
\* history, whatever the file held before.
C31_UnlessWriteFails ==
    [][SaveFailed =>
          /\ fault' \in {"create_dir_all", "create"} => file' = file
          /\ fault' \in {"write", "flush"} =>
                file'.exists /\ load_history(file') = ChatHistoryNew]_vars

====
